---- MODULE Spec2Model ----
(***************************************************************************)
(* A model of the RAG ingestion service (ingestion-service/ingest.py):     *)
(* IngestionService.run waits for the backend, walks the configured        *)
(* pipelines in order and runs each enabled one through fetch ->           *)
(* process_documents -> create_vector_db, counting successful / failed /   *)
(* skipped pipelines and exiting with a code derived from the counts.      *)
(***************************************************************************)
EXTENDS Integers, Sequences, FiniteSets, TLC

(***************************************************************************)
(* Bounds of the model.                                                    *)
(***************************************************************************)
MaxPipelines == 2   \* pipelines in the configuration
MaxFiles == 1       \* files a source holds (repository tree, bucket listing)
MaxSegs == 1        \* segments the chunker yields for one file
MaxCalls == 2       \* direct calls of create_vector_db (SpecLoader)
MaxItems == 3       \* items of a source when a fetcher or a pipeline is run on its own
MaxChunks == 2      \* segments of one file when a pipeline is run on its own (SpecPipeline)
MaxClicks == 2      \* clicks on the Add button of the upload page (SpecUpload)
MaxCallers == 2     \* script threads that use the connection pool (SpecPool)
MaxGets == 2        \* calls of _get_pg_pool one of them makes
MaxBatch == 2       \* pipelines of a run whose chunk lists are kept (SpecBatch)
MaxRetries == 6     \* max_retries of a direct call of wait_for_llamastack (SpecWait)
MaxUploads == 2     \* calls of _upload_documents_to_database in one session (SpecDocs)

(***************************************************************************)
(* Program constants.                                                      *)
(***************************************************************************)
max_retries == 30   \* wait_for_llamastack(max_retries=30, ...)
retry_delay == 5    \* wait_for_llamastack(..., retry_delay=5)

None == "None"

(***************************************************************************)
(* Text.  A message is a sequence of one-character strings, so that        *)
(* str.lower() and the `in` substring test are computed, not assumed.      *)
(***************************************************************************)
UpperToLower ==
  [c \in {"A", "E", "I", "L", "R", "S", "T", "X", "Y", "D"} |->
     CASE c = "A" -> "a" [] c = "E" -> "e" [] c = "I" -> "i"
       [] c = "L" -> "l" [] c = "R" -> "r" [] c = "S" -> "s"
       [] c = "T" -> "t" [] c = "X" -> "x" [] c = "Y" -> "y"
       [] c = "D" -> "d"]

\* str.lower(), character by character
Lower(s) ==
  [i \in 1..Len(s) |-> IF s[i] \in DOMAIN UpperToLower THEN UpperToLower[s[i]] ELSE s[i]]

\* `sub in s` for strings
Contains(s, sub) ==
  \E i \in 1..(Len(s) - Len(sub) + 1) : SubSeq(s, i, i + Len(sub) - 1) = sub

already_exists == <<"a","l","r","e","a","d","y"," ","e","x","i","s","t","s">>

\* Messages a registration error may carry.  The first three are what a
\* backend says of a duplicate; the others are unrelated failures.
MsgDuplicate ==
  { <<"a","l","r","e","a","d","y"," ","e","x","i","s","t","s">>,
    <<"d","b"," ","A","l","r","e","a","d","y"," ","E","x","i","s","t","s">>,
    <<"A","L","R","E","A","D","Y"," ","E","X","I","S","T","S","!">> }

MsgOther ==
  { <<"t","i","m","e","d"," ","o","u","t">>,
    <<"e","x","i","s","t","s"," ","a","l","r","e","a","d","y">>,
    <<"a","l","r","e","a","d","y","e","x","i","s","t","s">>,
    <<>> }

Min(a, b) == IF a <= b THEN a ELSE b

(***************************************************************************)
(* Files.  A file name is the sequence of its dot-separated parts, a path  *)
(* a directory (a sequence of components) and a name.                      *)
(***************************************************************************)
LowerExt ==
  [e \in {"pdf", "PDF", "Pdf", "txt", "md"} |->
     CASE e = "PDF" -> "pdf" [] e = "Pdf" -> "pdf" [] OTHER -> e]

\* name.lower().endswith('.pdf')
EndsWithPdf(name) ==
  /\ Len(name) >= 2
  /\ name[Len(name)] \in DOMAIN LowerExt
  /\ LowerExt[name[Len(name)]] = "pdf"

\* os.path.join(dir, name)
Join(dir, name) == [dir |-> dir, name |-> name]

\* os.path.basename(path)
Basename(path) == path.name

\* The sequences without repetition over S of length at most n.
ListsOf(S, n) ==
  UNION { {f \in [1..k -> S] : \A i, j \in 1..k : i # j => f[i] # f[j]} : k \in 0..n }

\* What a repository holds under the configured sub-path (os.walk order).
RepoFiles ==
  { [dir |-> "docs", name |-> <<"a", "pdf">>],
    [dir |-> "docs", name |-> <<"b", "PDF">>],
    [dir |-> "docs", name |-> <<"readme", "md">>] }

\* Object keys of a bucket: a prefix and a file name.
S3Keys ==
  { [dir |-> "x", name |-> <<"a", "pdf">>],
    [dir |-> "y", name |-> <<"a", "pdf">>],
    [dir |-> "x", name |-> <<"n", "txt">>] }

\* URLs: the part before '?' ends in name; query is what follows '?'.
AllUrls ==
  << [name |-> <<"a", "pdf">>, query |-> ""],
     [name |-> <<"b">>, query |-> "v=1"],
     [name |-> <<"c", "Pdf">>, query |-> ""],
     [name |-> <<"b", "pdf">>, query |-> ""] >>

(***************************************************************************)
(* The configuration document: pipelines, a list of                        *)
(* {enabled, vector_store_name, source, config} in document order.  A key  *)
(* that is missing from the document has the value None; `complete` says   *)
(* whether config holds the parameters its fetcher reads with config[...]. *)
(***************************************************************************)
Sources == {"GITHUB", "S3", "URL", "FTP"}
Names == {"db1", "db2"}

Pipeline(e, s, n, c, k) ==
  [enabled |-> e, source |-> s, vector_store_name |-> n,
   config |-> [complete |-> c, urls |-> SubSeq(AllUrls, 1, k)]]

\* The pipelines a configuration is made of: disabled ones, one complete
\* pipeline per source kind (FTP is no source kind of the service), and
\* pipelines lacking a source parameter or the collection name.
PipelineConfigs ==
  { Pipeline(e, "GITHUB", "db1", TRUE, 0) : e \in {"false", "absent"} }
    \cup { Pipeline("true", "GITHUB", "db1", TRUE, 0),
           Pipeline("true", "S3", "db2", TRUE, 0),
           Pipeline("true", "URL", "db1", TRUE, MaxFiles),
           Pipeline("true", "FTP", "db1", TRUE, 0),
           Pipeline("true", "GITHUB", "db2", FALSE, 0),
           Pipeline("true", "S3", "db1", FALSE, 0),
           Pipeline("true", "URL", None, TRUE, 1) }

\* Mutant: a missing 'enabled' key read as enabled, get('enabled', True).
IsEnabledUnlessFalse(pipeline_config) == pipeline_config.enabled # "false"

\* pipeline_config.get('enabled', False)
IsEnabled(pipeline_config) == pipeline_config.enabled = "true"

(***************************************************************************)
(* Source fetchers.  Each is computed from its config, the scratch         *)
(* directory and env, the outcomes of the external operations it calls.    *)
(* The result is [raised, files, fault]: raised is the class of the        *)
(* exception that leaves the fetcher (None: it returned files), fault the  *)
(* underlying operation that failed (None: none did).                      *)
(***************************************************************************)
Returned(files, fault) == [raised |-> None, files |-> files, fault |-> fault]
Raised(e, fault) == [raised |-> e, files |-> <<>>, fault |-> fault]

\* What git can do: exit 0, exit non-zero (subprocess.CalledProcessError
\* under check=True), or not start at all (FileNotFoundError from Popen).
GitOutcomes == {"ok", "nonzero", "cannot_start"}

\* path_exists and tree are read only after a checkout that succeeded, tree
\* only under a path that exists.
GithubEnvsOf(n) ==
  { [git |-> g, path_exists |-> FALSE, tree |-> <<>>] : g \in GitOutcomes }
    \cup { [git |-> "ok", path_exists |-> TRUE, tree |-> t] : t \in ListsOf(RepoFiles, n) }

GithubEnvs == GithubEnvsOf(MaxFiles)

\* Mutant: subprocess.run is not inside a try block.
GithubCatchesNothing(e) == FALSE

\* except subprocess.CalledProcessError
GithubCatches(e) == e = "CalledProcessError"

\* [f for f in walk if f.lower().endswith('.pdf')], joined to their root
PdfsUnder(dir, listing) ==
  LET pdfs == SelectSeq(listing, LAMBDA f : EndsWithPdf(f.name))
  IN  [i \in 1..Len(pdfs) |-> Join(Append(dir, pdfs[i].dir), pdfs[i].name)]

fetch_from_github(config, temp_dir, env) ==
  LET clone_dir == <<temp_dir, "repo">>
      e == CASE env.git = "nonzero" -> "CalledProcessError"
             [] env.git = "cannot_start" -> "FileNotFoundError"
             [] OTHER -> None
      fault == IF env.git = "nonzero" THEN "checkout_nonzero" ELSE "checkout_cannot_start"
  IN  IF ~config.complete THEN Raised("KeyError", "missing_parameter")
      ELSE IF e # None
        THEN IF GithubCatches(e) THEN Returned(<<>>, fault) ELSE Raised(e, fault)
      ELSE IF ~env.path_exists THEN Returned(<<>>, "path_missing")
      ELSE Returned(PdfsUnder(clone_dir, env.tree), None)

\* error: where the listing or a download raises.  [kind |-> "list", at |-> k]:
\* the paginator raises when asked for object k; "download": download_file
\* raises for object k.
S3Errors(n) ==
  {[kind |-> "none", at |-> 0]}
    \cup { [kind |-> k, at |-> a] : k \in {"list", "download"}, a \in 1..(n + 1) }

\* The bucket is listed only with a client and a download directory.
S3EnvsOf(n) ==
  { [client_ok |-> c, mkdir_ok |-> m, keys |-> <<>>, error |-> [kind |-> "none", at |-> 0]] :
      c \in BOOLEAN, m \in BOOLEAN }
    \cup UNION { { [client_ok |-> TRUE, mkdir_ok |-> TRUE, keys |-> ks, error |-> er] :
                     er \in S3Errors(Len(ks)) } : ks \in ListsOf(S3Keys, n) }

S3Envs == S3EnvsOf(MaxFiles)

\* The first object at which the loop of fetch_from_s3 raises, 0 if none.
S3ErrorAt(env) ==
  LET n == Len(env.keys)
      hit(k) == /\ env.error.at = k
                /\ \/ env.error.kind = "list"
                   \/ env.error.kind = "download" /\ k <= n /\ EndsWithPdf(env.keys[k].name)
  IN  IF \E k \in 1..(n + 1) : hit(k) THEN env.error.at ELSE 0

\* Mutant: the listing and the downloads are not inside a try block.
S3CatchesNothing(e) == FALSE

\* except Exception, around the listing and the downloads
S3Catches(e) == TRUE

\* The paths pdf_files holds after the objects before `stop` were handled.
S3Downloaded(download_dir, keys, stop) ==
  LET seen == SubSeq(keys, 1, stop - 1)
      pdfs == SelectSeq(seen, LAMBDA o : EndsWithPdf(o.name))
  IN  [i \in 1..Len(pdfs) |-> Join(download_dir, Basename(pdfs[i]))]

\* Mutant: the except clause returns what was downloaded so far.
S3OnErrorPartial(partial) == partial

\* `except Exception: return []`
S3OnError(partial) == <<>>

fetch_from_s3(config, temp_dir, env) ==
  LET download_dir == <<temp_dir, "s3_files">>
      at == S3ErrorAt(env)
  IN  IF ~config.complete THEN Raised("KeyError", "missing_parameter")
      ELSE IF ~env.client_ok THEN Raised("ClientError", "client")
      ELSE IF ~env.mkdir_ok THEN Raised("OSError", "mkdir")
      ELSE IF at # 0
        THEN IF S3Catches("ClientError")
               THEN Returned(S3OnError(S3Downloaded(download_dir, env.keys, at)), env.error.kind)
             ELSE Raised("ClientError", env.error.kind)
      ELSE Returned(S3Downloaded(download_dir, env.keys, Len(env.keys) + 1), None)

UrlEnvs(urls) ==
  { [mkdir_ok |-> m, http_ok |-> h] : m \in BOOLEAN, h \in [1..Len(urls) -> BOOLEAN] }

\* filename = basename(url.split('?')[0]); '.pdf' is added unless it ends so
UrlFilename(url) ==
  IF EndsWithPdf(url.name) THEN url.name ELSE Append(url.name, "pdf")

\* Mutant: a download is not inside a try block.
UrlCatchesNothing(e) == FALSE

\* except Exception, around one download
UrlCatches(e) == TRUE

RECURSIVE UrlLoop(_, _, _, _)
\* The loop of fetch_from_urls from url i on: [raised, files].
UrlLoop(download_dir, urls, env, i) ==
  IF i > Len(urls) THEN [raised |-> None, files |-> <<>>]
  ELSE IF ~env.http_ok[i] /\ ~UrlCatches("RequestException")
    THEN [raised |-> "RequestException", files |-> <<>>]
  ELSE LET rest == UrlLoop(download_dir, urls, env, i + 1)
           here == IF env.http_ok[i] THEN <<Join(download_dir, UrlFilename(urls[i]))>> ELSE <<>>
       IN  [raised |-> rest.raised,
            files |-> IF rest.raised = None THEN here \o rest.files ELSE <<>>]

fetch_from_urls(config, temp_dir, env) ==
  LET download_dir == <<temp_dir, "url_files">>
      r == UrlLoop(download_dir, config.urls, env, 1)
      fault == IF \E i \in 1..Len(config.urls) : ~env.http_ok[i] THEN "http" ELSE None
  IN  IF ~env.mkdir_ok THEN Raised("OSError", "mkdir")
      ELSE IF r.raised # None THEN Raised(r.raised, fault)
      ELSE Returned(r.files, fault)

\* The outcomes the external world can give the fetch of one pipeline.
FetchEnvs(source, config) ==
  CASE source = "GITHUB" -> GithubEnvs
    [] source = "S3" -> S3Envs
    [] source = "URL" -> UrlEnvs(config.urls)
    [] OTHER -> {}

\* The dispatch of process_pipeline on the source kind.
Fetch(source, config, temp_dir, env) ==
  CASE source = "GITHUB" -> fetch_from_github(config, temp_dir, env)
    [] source = "S3" -> fetch_from_s3(config, temp_dir, env)
    [] source = "URL" -> fetch_from_urls(config, temp_dir, env)

KnownSource(source) == source \in {"GITHUB", "S3", "URL"}

RECURSIVE UrlAttempts(_, _, _)
\* The URLs the loop of fetch_from_urls requests from url i on, in order.
UrlAttempts(urls, env, i) ==
  IF i > Len(urls) THEN <<>>
  ELSE IF ~env.http_ok[i] /\ ~UrlCatches("RequestException") THEN <<urls[i]>>
  ELSE <<urls[i]>> \o UrlAttempts(urls, env, i + 1)

\* requests.get calls a fetcher has made when it ends (none but for URL).
Requested(source, config, env) ==
  IF source = "URL" /\ env.mkdir_ok THEN UrlAttempts(config.urls, env, 1) ELSE <<>>

Range(s) == { s[i] : i \in 1..Len(s) }

\* The paths a fetcher has written in full under its download directory
\* when it ends, whatever it returns (for GITHUB: the PDFs of the checkout).
Written(source, config, temp_dir, env) ==
  CASE source = "S3" ->
         IF config.complete /\ env.client_ok /\ env.mkdir_ok
           THEN LET at == S3ErrorAt(env)
                IN  Range(S3Downloaded(<<temp_dir, "s3_files">>, env.keys,
                                       IF at # 0 THEN at ELSE Len(env.keys) + 1))
           ELSE {}
    [] source = "URL" ->
         IF env.mkdir_ok
           THEN LET n == Len(UrlAttempts(config.urls, env, 1))
                IN  { Join(<<temp_dir, "url_files">>, UrlFilename(config.urls[i])) :
                        i \in {j \in 1..n : env.http_ok[j]} }
           ELSE {}
    [] OTHER -> Range(fetch_from_github(config, temp_dir, env).files)

\* The downloads fetch_from_s3 and fetch_from_urls completed, in order:
\* the local path written and the source item (object key, URL) it came from.
Downloads(source, config, temp_dir, env) ==
  CASE source = "S3" ->
         IF config.complete /\ env.client_ok /\ env.mkdir_ok
           THEN LET at == S3ErrorAt(env)
                    seen == SubSeq(env.keys, 1, (IF at # 0 THEN at ELSE Len(env.keys) + 1) - 1)
                    pdfs == SelectSeq(seen, LAMBDA o : EndsWithPdf(o.name))
                IN  [i \in 1..Len(pdfs) |->
                       [path |-> Join(<<temp_dir, "s3_files">>, Basename(pdfs[i])),
                        item |-> pdfs[i]]]
           ELSE <<>>
    [] source = "URL" ->
         IF env.mkdir_ok
           THEN LET n == Len(UrlAttempts(config.urls, env, 1))
                    got == SelectSeq(SubSeq(config.urls, 1, n),
                                     LAMBDA u : \E i \in 1..n : config.urls[i] = u /\ env.http_ok[i])
                IN  [i \in 1..Len(got) |->
                       [path |-> Join(<<temp_dir, "url_files">>, UrlFilename(got[i])),
                        item |-> got[i]]]
           ELSE <<>>
    [] OTHER -> <<>>

\* s3.download_file(bucket, key, file_path) and open(file_path, 'wb')
\* replace what file_path held: after the downloads, a path holds the item
\* written to it last.
Disk(downloads) ==
  [p \in { downloads[i].path : i \in 1..Len(downloads) } |->
     LET last == CHOOSE i \in 1..Len(downloads) :
                   /\ downloads[i].path = p
                   /\ \A j \in (i + 1)..Len(downloads) : downloads[j].path # p
     IN  downloads[last].item]

\* The configurations and outcomes a fetcher called on its own is given.
FetchConfigs(source) ==
  IF source = "URL"
    THEN { [complete |-> TRUE, urls |-> SubSeq(AllUrls, 1, k)] :
             k \in 0..Min(MaxItems, Len(AllUrls)) }
    ELSE { [complete |-> c, urls |-> <<>>] : c \in BOOLEAN }

FetchEnvsOf(source, config, n) ==
  CASE source = "GITHUB" -> GithubEnvsOf(n)
    [] source = "S3" -> S3EnvsOf(n)
    [] source = "URL" -> UrlEnvs(config.urls)

(***************************************************************************)
(* process_documents.  A segment of the chunker is the set of labels of    *)
(* its doc_items; a file's outcome is the segments the chunker yields and  *)
(* whether conversion or chunking raises after them.                       *)
(***************************************************************************)
Segments == { {"TEXT"}, {"TABLE"}, {"PARAGRAPH", "PICTURE"} }

FileOutcomesOf(n) ==
  UNION { { [segs |-> s, raises |-> r] : s \in [1..k -> Segments], r \in BOOLEAN } :
          k \in 0..n }

FileOutcomes == FileOutcomesOf(MaxSegs)

\* Mutant: all(...) in place of any(...).
IsTextThroughout(seg) == \A label \in seg : label \in {"TEXT", "PARAGRAPH"}

\* any(c.label in [TEXT, PARAGRAPH] for c in chunk.meta.doc_items)
IsText(seg) == \E label \in seg : label \in {"TEXT", "PARAGRAPH"}

\* Mutant: the source is the file name without its extension.
LlamaStackDocumentStem(doc_id, file_path) ==
  [document_id |-> <<"doc-", doc_id>>, mime_type |-> "text/plain",
   metadata |-> [source |-> SubSeq(Basename(file_path), 1, Len(Basename(file_path)) - 1)]]

LlamaStackDocument(doc_id, file_path) ==
  [document_id |-> <<"doc-", doc_id>>, mime_type |-> "text/plain",
   metadata |-> [source |-> Basename(file_path)]]

RECURSIVE ExtractChunks(_, _, _, _)
\* The inner loop over one file's segments from segment k on:
\* [documents, doc_id] after it.
ExtractChunks(docs, doc_id, file_path, segs) ==
  IF segs = <<>> THEN [documents |-> docs, doc_id |-> doc_id]
  ELSE IF IsText(Head(segs))
    THEN ExtractChunks(Append(docs, LlamaStackDocument(doc_id + 1, file_path)),
                       doc_id + 1, file_path, Tail(segs))
  ELSE ExtractChunks(docs, doc_id, file_path, Tail(segs))

\* Mutant: doc_id is set to 0 inside the loop over pdf_files.
ProcessFileCounterReset(docs, doc_id, file_path, outcome) ==
  ExtractChunks(docs, 0, file_path, outcome.segs)

\* One iteration of the loop over pdf_files: the file's segments are
\* extracted until the chunker is exhausted or raises; the except clause
\* only logs, so what was appended before the exception stays.
ProcessFile(docs, doc_id, file_path, outcome) ==
  ExtractChunks(docs, doc_id, file_path, outcome.segs)

(***************************************************************************)
(* create_vector_db and run: the decisions the code takes.                 *)
(***************************************************************************)
\* Mutant: the `if not documents` check is missing.
HasDocumentsUnchecked(docs) == TRUE

\* `if not documents` at the top of create_vector_db
HasDocuments(docs) == docs # <<>>

\* Mutant: the message is not lower-cased before the test.
AlreadyExistsCaseSensitive(error_msg) == Contains(error_msg, already_exists)

\* Mutant: the test looks for 'exists' alone.
AlreadyExistsLoose(error_msg) ==
  Contains(Lower(error_msg), <<"e", "x", "i", "s", "t", "s">>)

\* 'already exists' in error_msg.lower()
AlreadyExists(error_msg) == Contains(Lower(error_msg), already_exists)

\* Mutant: the `if not pdf_files` check is missing.
AfterFetchUnchecked(files) == "transform"

\* `if not pdf_files: return False` in process_pipeline
AfterFetch(files) == IF files = <<>> THEN "return" ELSE "transform"

\* `if not documents: return False` in process_pipeline
AfterTransform(docs) == IF docs = <<>> THEN "return" ELSE "cvd"

\* Mutant: the result of wait_for_llamastack is not looked at.
AfterWaitIgnored(ready) == "loop"

\* `if not self.wait_for_llamastack(): sys.exit(1)`
AfterWait(ready) == IF ready THEN "loop" ELSE "exit"

\* `except Exception` around process_pipeline: every class raised in the
\* model derives from Exception.
Exceptions ==
  {"KeyError", "FileNotFoundError", "CalledProcessError", "OSError",
   "ClientError", "RequestException"}

\* Mutant: `except OSError` in place of `except Exception`.
CaughtOnlyOSError(e) == e = "OSError"

CaughtInRun(e) == e \in Exceptions

\* Mutant: tempfile.mkdtemp() in place of the with-block; nothing is removed.
CleanupSkipped(ds, d) == ds

\* TemporaryDirectory.__exit__: the directory of the with-block is removed.
Cleanup(ds, d) == ds \ {d}

\* Mutant: an insert that raised is issued again.
AfterInsertRetried(raised) == IF raised THEN "insert" ELSE "return True"

\* The try/except around rag_tool.insert in create_vector_db.
AfterInsert(raised) == IF raised THEN "return False" ELSE "return True"

\* Mutant: the except clause of run logs the error and counts nothing.
FailedOnExceptionUncounted(n_failed) == n_failed

\* `except Exception as e: ...; failed += 1` in run
FailedOnException(n_failed) == n_failed + 1

\* Mutant: the else branch of the dispatch logs and returns True.
UnknownSourceReturnsTrue == TRUE

\* `else: logger.error("Unknown source type"); return False`: what
\* process_pipeline returns for a source kind it does not know.
UnknownSourceReturns == FALSE

\* Mutant: the loop over the pipelines stops one pipeline early.
ExhaustedEarly(i, n) == i >= n

\* `for pipeline_name, pipeline_config in pipelines.items()` has no item
\* left: i is the position of the next item, n the number of items.
Exhausted(i, n) == i > n

\* Mutant: `if failed > 1`.
ExitCodeOffByOne(n_failed) == IF n_failed > 1 THEN 1 ELSE 0

\* `if failed > 0: sys.exit(1) else: sys.exit(0)`
ExitCode(n_failed) == IF n_failed > 0 THEN 1 ELSE 0

(***************************************************************************)
(* State.                                                                  *)
(***************************************************************************)
VARIABLES
  pipelines,          \* config['pipelines'], in document order
  mode,               \* which entry point is exercised: "run" is IngestionService.run
  pc,                 \* where the program is
  attempt,            \* probes wait_for_llamastack has made
  sleeps,             \* time.sleep(retry_delay) calls it has made
  idx,                \* the pipeline of the loop of run (the call, in mode "direct")
  total, successful, failed, skipped,   \* the counters of run (total: -1 until set)
  exit_code,          \* the code the process ended with, -1 while it runs
  temp_dir,           \* the TemporaryDirectory of process_pipeline (1, 2, ...), 0 outside it
  dirs,               \* the scratch directories that exist
  made,               \* how many scratch directories were ever created
  vector_store_name,  \* local of process_pipeline / argument of create_vector_db
  pdf_files,          \* local of process_pipeline
  file_i,             \* position of the loop of process_documents
  documents,          \* llama_documents, then the argument of create_vector_db
  doc_id,             \* the counter of process_documents
  vector_dbs,         \* the backend: how many collections carry each name
  calls,              \* per pipeline (call), the external operations issued, in order
  outcome,            \* per pipeline (call): pending, skipped, successful, failed
  reason,             \* per pipeline (call): which return or except branch decided it
  fault,              \* per pipeline: the underlying operation that failed in its fetch
  registration,       \* per pipeline (call): what the registration met, None before it
  exc,                \* per pipeline: the exception class that reached run, or None
  cvd_args,           \* modes "direct", "batch": the arguments of the calls of create_vector_db
  file_log,           \* outside mode "run": per file handled by process_documents, what it met
  fetched,            \* mode "fetch": the call of a fetcher made, with what it returned
  backend,            \* upload page: the vector databases and providers the backend lists
  session_state,      \* upload page: st.session_state
  last_call,          \* upload page: the last call of _create_vector_database
  upload_calls,       \* upload page: the calls of _upload_documents_to_database, in order
  pg_pool,            \* upload page: the module global _pg_pool (0: None, else the pool)
  tasks,              \* per caller of _get_pg_pool: where it is and what it holds
  create_pool_calls,  \* how many times asyncpg.create_pool was invoked
  wait_call           \* the call of wait_for_llamastack: its arguments and, in mode
                      \* "wait", what it did (trace) and returned (result)

\* The state of the upload page and of its connection pool.
uivars == <<backend, session_state, last_call, upload_calls>>
poolvars == <<pg_pool, tasks, create_pool_calls>>

vars ==
  <<pipelines, mode, pc, attempt, sleeps, idx, total, successful, failed, skipped,
    exit_code, temp_dir, dirs, made, vector_store_name, pdf_files, file_i,
    documents, doc_id, vector_dbs, calls, outcome, reason, fault, registration, exc,
    cvd_args, file_log, fetched, uivars, poolvars, wait_call>>

\* The modes in which run() drives the pipelines and counts their outcomes.
RunModes == {"run", "batch"}

\* run() calls wait_for_llamastack() with its defaults.
DefaultWait ==
  [max_retries |-> max_retries, retry_delay |-> retry_delay, trace |-> <<>>, result |-> None]

\* No registration attempted yet.
NoRegistration == [kind |-> None, says_exists |-> FALSE]

\* The upload page before it is opened.
NoBackend == [vector_dbs |-> <<>>, providers |-> <<>>]
NoSession ==
  [creation_status |-> None, creation_message |-> "", newly_created_vdb |-> None,
   selected_vector_db |-> ""]

\* The locals of process_pipeline, when it is not running (what a pipeline
\* run on its own met at each file is kept for inspection).
NoLocals ==
  /\ file_log' = IF mode = "pipeline" THEN file_log ELSE <<>>
  /\ temp_dir' = 0
  /\ vector_store_name' = None
  /\ pdf_files' = <<>>
  /\ file_i' = 0
  /\ documents' = <<>>
  /\ doc_id' = 0

InitCommon(n) ==
  /\ attempt = 0
  /\ sleeps = 0
  /\ idx = 0
  /\ total = -1
  /\ successful = 0
  /\ failed = 0
  /\ skipped = 0
  /\ exit_code = -1
  /\ temp_dir = 0
  /\ dirs = {}
  /\ made = 0
  /\ vector_store_name = None
  /\ pdf_files = <<>>
  /\ file_i = 0
  /\ documents = <<>>
  /\ doc_id = 0
  /\ vector_dbs = [name \in Names |-> 0]
  /\ calls = [i \in 1..n |-> <<>>]
  /\ outcome = [i \in 1..n |-> "pending"]
  /\ reason = [i \in 1..n |-> None]
  /\ fault = [i \in 1..n |-> None]
  /\ registration = [i \in 1..n |-> NoRegistration]
  /\ exc = [i \in 1..n |-> None]
  /\ cvd_args = <<>>
  /\ file_log = <<>>
  /\ fetched = <<>>
  /\ backend = NoBackend
  /\ session_state = NoSession
  /\ last_call = <<>>
  /\ upload_calls = <<>>
  /\ pg_pool = 0
  /\ tasks = <<>>
  /\ create_pool_calls = 0

\* IngestionService(config_path) constructed, run() about to start.
Init ==
  /\ pipelines \in UNION { [1..n -> PipelineConfigs] : n \in 0..MaxPipelines }
  /\ mode = "run"
  /\ pc = "wait"
  /\ InitCommon(Len(pipelines))
  /\ wait_call = DefaultWait

(***************************************************************************)
(* wait_for_llamastack: one probe per step.                                *)
(***************************************************************************)
\* Mutant: `if attempt < max_retries`, so that the last failure sleeps too.
MoreAttemptsOffByOne(a, n) == a < n

\* `if attempt < max_retries - 1` in the except clause: another attempt
\* follows attempt a (counted from 0) of n.
MoreAttempts(a, n) == a < n - 1

Probe(ok) == [op |-> "probe", ok |-> ok, secs |-> 0]
Sleep(secs) == [op |-> "sleep", ok |-> FALSE, secs |-> secs]

\* wait_for_llamastack returns: to run(), which sets its counters or exits,
\* or (mode "wait") to its direct caller, which keeps the result.
WaitReturns(ready, steps) ==
  IF mode = "wait"
    THEN /\ pc' = "idle"
         /\ wait_call' = [wait_call EXCEPT !.trace = @ \o steps,
                                           !.result = IF ready THEN "True" ELSE "False"]
         /\ UNCHANGED <<total, idx, exit_code>>
    ELSE /\ pc' = AfterWait(ready)
         /\ IF AfterWait(ready) = "loop"
              THEN total' = Len(pipelines) /\ idx' = 1 /\ exit_code' = exit_code
              ELSE total' = total /\ idx' = idx /\ exit_code' = 1
         /\ UNCHANGED wait_call

\* A probe succeeds: wait_for_llamastack returns True (in run() its locals,
\* attempt among them, are gone).
ProbeReady ==
  /\ pc = "wait"
  /\ attempt < wait_call.max_retries
  /\ WaitReturns(TRUE, <<Probe(TRUE)>>)
  /\ attempt' = IF mode = "wait" THEN attempt + 1 ELSE 0
  /\ sleeps' = IF mode = "wait" THEN sleeps ELSE 0
  /\ UNCHANGED <<file_log, fetched, uivars, poolvars, pipelines, mode, successful, failed, skipped, temp_dir, dirs,
                 made, vector_store_name, pdf_files, file_i, documents, doc_id,
                 vector_dbs, calls, outcome, reason, fault, exc, registration, cvd_args>>

\* A probe fails: sleep and try again, or give up after the last attempt.
ProbeFails ==
  /\ pc = "wait"
  /\ attempt < wait_call.max_retries
  /\ attempt' = attempt + 1
  /\ IF MoreAttempts(attempt, wait_call.max_retries)
       THEN /\ sleeps' = sleeps + 1
            /\ wait_call' = IF mode = "wait"
                              THEN [wait_call EXCEPT !.trace =
                                      @ \o <<Probe(FALSE), Sleep(wait_call.retry_delay)>>]
                              ELSE wait_call
            /\ UNCHANGED <<pc, total, idx, exit_code>>
       ELSE /\ WaitReturns(FALSE, <<Probe(FALSE)>>)
            /\ sleeps' = sleeps
  /\ UNCHANGED <<file_log, fetched, uivars, poolvars, pipelines, mode, successful, failed, skipped, temp_dir, dirs,
                 made, vector_store_name, pdf_files, file_i, documents, doc_id,
                 vector_dbs, calls, outcome, reason, fault, exc, registration, cvd_args>>

\* The for loop ends without having returned: the `return False` after it
\* (reached when max_retries is 0).
LoopEnds ==
  /\ pc = "wait"
  /\ attempt >= wait_call.max_retries
  /\ WaitReturns(FALSE, <<>>)
  /\ UNCHANGED <<file_log, fetched, uivars, poolvars, pipelines, mode, attempt, sleeps, successful, failed, skipped,
                 temp_dir, dirs, made, vector_store_name, pdf_files, file_i, documents,
                 doc_id, vector_dbs, calls, outcome, reason, fault, exc, registration,
                 cvd_args>>

(***************************************************************************)
(* How process_pipeline (or, in mode "direct", create_vector_db) ends.     *)
(* Finish(ok, why, e): it returns ok from branch `why`, or raises e        *)
(* (e # None).  The with-block removes the scratch directory; run counts   *)
(* the pipeline and goes on with the next, unless its except clause does   *)
(* not catch e, in which case the process dies with a traceback (code 1).  *)
(***************************************************************************)
Finish(ok, why, e) ==
  /\ dirs' = Cleanup(dirs, temp_dir)
  /\ NoLocals
  /\ reason' = [reason EXCEPT ![idx] = why]
  /\ exc' = [exc EXCEPT ![idx] = e]
  /\ IF mode \notin RunModes
       THEN /\ outcome' = [outcome EXCEPT ![idx] = IF ok THEN "successful" ELSE "failed"]
            /\ pc' = "idle"
            /\ UNCHANGED <<idx, successful, failed, exit_code>>
       ELSE IF e # None /\ ~CaughtInRun(e)
         THEN /\ pc' = "crashed"
              /\ exit_code' = 1
              /\ UNCHANGED <<idx, successful, failed, outcome>>
       ELSE /\ outcome' = [outcome EXCEPT ![idx] = IF ok THEN "successful" ELSE "failed"]
            /\ successful' = IF ok THEN successful + 1 ELSE successful
            /\ failed' = IF ok THEN failed
                          ELSE IF e # None THEN FailedOnException(failed)
                          ELSE failed + 1
            /\ idx' = idx + 1
            /\ pc' = "loop"
            /\ exit_code' = exit_code

\* The program goes on inside the pipeline, at `next`.
Goto(next) ==
  /\ pc' = next
  /\ UNCHANGED <<idx, successful, failed, exit_code, outcome, reason, exc>>

(***************************************************************************)
(* run: the loop over the pipelines.                                       *)
(***************************************************************************)
\* `if not pipeline_config.get('enabled', False): skipped += 1; continue`
SkipPipeline ==
  /\ pc = "loop"
  /\ ~Exhausted(idx, Len(pipelines))
  /\ ~IsEnabled(pipelines[idx])
  /\ skipped' = skipped + 1
  /\ outcome' = [outcome EXCEPT ![idx] = "skipped"]
  /\ idx' = idx + 1
  /\ UNCHANGED <<file_log, fetched, uivars, poolvars, wait_call, pipelines, mode, pc, attempt, sleeps, total, successful, failed,
                 exit_code, temp_dir, dirs, made, vector_store_name, pdf_files,
                 file_i, documents, doc_id, vector_dbs, calls, reason, fault, exc,
                 registration, cvd_args>>

\* process_pipeline is entered: it reads the pipeline's keys and creates
\* the scratch directory (mkdtemp may fail).
EnterPipeline ==
  /\ pc = "loop"
  /\ ~Exhausted(idx, Len(pipelines))
  /\ IsEnabled(pipelines[idx])
  /\ \E mkdtemp_ok \in BOOLEAN :
       LET cfg == pipelines[idx] IN
       IF cfg.vector_store_name = None
         THEN /\ Finish(FALSE, "exception", "KeyError")
              /\ fault' = [fault EXCEPT ![idx] = "missing_key"]
              /\ made' = made
       ELSE IF ~mkdtemp_ok
         THEN /\ Finish(FALSE, "exception", "OSError")
              /\ fault' = [fault EXCEPT ![idx] = "mkdtemp"]
              /\ made' = made
       ELSE /\ Goto("fetch")
            /\ made' = made + 1
            /\ temp_dir' = made + 1
            /\ dirs' = dirs \cup {made + 1}
            /\ vector_store_name' = cfg.vector_store_name
            /\ UNCHANGED <<file_log, pdf_files, file_i, documents, doc_id, fault>>
  /\ UNCHANGED <<fetched, uivars, poolvars, wait_call, pipelines, mode, attempt, sleeps, total, skipped, vector_dbs, calls,
                 registration, cvd_args>>

\* `else: logger.error("Unknown source type"); return False`
UnknownSource ==
  /\ pc = "fetch"
  /\ ~KnownSource(pipelines[idx].source)
  /\ Finish(UnknownSourceReturns, "unknown_source", None)
  /\ UNCHANGED <<fetched, uivars, poolvars, wait_call, pipelines, mode, attempt, sleeps, total, skipped, made, vector_dbs,
                 calls, fault, registration, cvd_args>>

\* The fetcher of the source kind is called; process_documents is entered
\* when it returned files.
FetchFiles ==
  /\ pc = "fetch"
  /\ KnownSource(pipelines[idx].source)
  /\ \E env \in IF mode \in RunModes
                  THEN FetchEnvs(pipelines[idx].source, pipelines[idx].config)
                  ELSE FetchEnvsOf(pipelines[idx].source, pipelines[idx].config, MaxItems) :
       LET r == Fetch(pipelines[idx].source, pipelines[idx].config, temp_dir, env) IN
       /\ fault' = [fault EXCEPT ![idx] = r.fault]
       /\ IF r.raised # None
            THEN /\ Finish(FALSE, "exception", r.raised)
                 /\ calls' = [calls EXCEPT ![idx] = Append(@, "fetch")]
          ELSE IF AfterFetch(r.files) = "return"
            THEN /\ Finish(FALSE, "no_files", None)
                 /\ calls' = [calls EXCEPT ![idx] = Append(@, "fetch")]
          ELSE /\ Goto("transform")
               /\ calls' = [calls EXCEPT ![idx] = @ \o <<"fetch", "transform">>]
               /\ pdf_files' = r.files
               /\ file_i' = 1
               /\ documents' = <<>>
               /\ doc_id' = 0
               /\ file_log' = <<>>
               /\ UNCHANGED <<temp_dir, dirs, vector_store_name>>
  /\ UNCHANGED <<fetched, uivars, poolvars, wait_call, pipelines, mode, attempt, sleeps, total, skipped, made, vector_dbs,
                 registration, cvd_args>>

\* One file of process_documents.
ConvertFile ==
  /\ pc = "transform"
  /\ file_i <= Len(pdf_files)
  /\ \E o \in IF mode \in RunModes THEN FileOutcomes ELSE FileOutcomesOf(MaxChunks) :
       LET r == ProcessFile(documents, doc_id, pdf_files[file_i], o) IN
       /\ documents' = r.documents
       /\ doc_id' = r.doc_id
       /\ file_log' = IF mode \in RunModes THEN file_log
                       ELSE Append(file_log, [file_path |-> pdf_files[file_i],
                                              segs |-> IF mode = "documents" THEN o.segs ELSE <<>>,
                                              raised |-> o.raises,
                                              first |-> doc_id + 1, last |-> r.doc_id])
  /\ file_i' = file_i + 1
  /\ Goto("transform")
  /\ UNCHANGED <<fetched, uivars, poolvars, wait_call, pipelines, mode, attempt, sleeps, total, skipped, temp_dir, dirs,
                 made, vector_store_name, pdf_files, vector_dbs, calls, fault,
                 registration, cvd_args>>

\* process_documents returns; `if not documents: return False`, else
\* create_vector_db is called.
EndTransform ==
  /\ mode # "documents"
  /\ pc = "transform"
  /\ file_i > Len(pdf_files)
  /\ IF AfterTransform(documents) = "return"
       THEN /\ Finish(FALSE, "no_documents", None)
            /\ UNCHANGED cvd_args
       ELSE /\ Goto("cvd")
            /\ cvd_args' = IF mode = "batch"
                             THEN Append(cvd_args, [vector_store_name |-> vector_store_name,
                                                    documents |-> documents])
                             ELSE cvd_args
            /\ UNCHANGED <<file_log, temp_dir, dirs, vector_store_name, pdf_files, file_i,
                           documents, doc_id>>
  /\ UNCHANGED <<fetched, uivars, poolvars, wait_call, pipelines, mode, attempt, sleeps, total, skipped, made, vector_dbs,
                 calls, fault, registration>>

(***************************************************************************)
(* create_vector_db(vector_store_name, documents).                         *)
(***************************************************************************)
\* `if not documents: return False`
CvdEnter ==
  /\ pc = "cvd"
  /\ IF ~HasDocuments(documents)
       THEN Finish(FALSE, "empty", None)
       ELSE /\ Goto("register")
            /\ UNCHANGED <<file_log, temp_dir, dirs, vector_store_name, pdf_files, file_i,
                           documents, doc_id>>
  /\ UNCHANGED <<fetched, uivars, poolvars, wait_call, pipelines, mode, attempt, sleeps, total, skipped, made, vector_dbs,
                 calls, fault, registration, cvd_args>>

\* What the try block of the registration meets: the provider listing
\* (get_provider_id, evaluated as an argument of register) answers or
\* raises; then the backend registers the collection, rejects a name it
\* already holds with a message of MsgDuplicate, or fails otherwise.
\* [kind, ops, raised, error_msg]: raised says whether the try block raised,
\* error_msg is str(e) then.
RegisterReplies(name, dbs) ==
  { [kind |-> "providers", ops |-> <<"providers">>, raised |-> TRUE, error_msg |-> m] :
      m \in MsgDuplicate \cup MsgOther }
  \cup { [kind |-> "register", ops |-> <<"providers", "register">>, raised |-> TRUE,
          error_msg |-> m] : m \in MsgOther }
  \cup IF dbs[name] > 0
         THEN { [kind |-> "duplicate", ops |-> <<"providers", "register">>, raised |-> TRUE,
                 error_msg |-> m] : m \in MsgDuplicate }
         ELSE { [kind |-> "ok", ops |-> <<"providers", "register">>, raised |-> FALSE,
                 error_msg |-> <<>>] }

\* Mutant: the except clause logs any registration error and goes on.
RegistrationPassesAlways(raised, error_msg) == TRUE

\* The except clause of the registration: does create_vector_db go on to
\* the insert?
RegistrationPasses(raised, error_msg) ==
  IF raised THEN AlreadyExists(error_msg) ELSE TRUE

Register ==
  /\ pc = "register"
  /\ \E reply \in RegisterReplies(vector_store_name, vector_dbs) :
       /\ calls' = [calls EXCEPT ![idx] = @ \o reply.ops]
       /\ registration' = [registration EXCEPT ![idx] =
                             [kind |-> reply.kind,
                              says_exists |-> reply.raised /\ reply.error_msg \in MsgDuplicate]]
       /\ vector_dbs' = IF reply.kind = "ok"
                          THEN [vector_dbs EXCEPT ![vector_store_name] = @ + 1]
                          ELSE vector_dbs
       /\ IF RegistrationPasses(reply.raised, reply.error_msg)
            THEN /\ Goto("insert")
                 /\ UNCHANGED <<file_log, temp_dir, dirs, vector_store_name, pdf_files, file_i,
                                documents, doc_id>>
            ELSE Finish(FALSE, "register", None)
  /\ UNCHANGED <<fetched, uivars, poolvars, wait_call, pipelines, mode, attempt, sleeps, total, skipped, made, fault, cvd_args>>

\* rag_tool.insert(documents=documents, ...): one call with the whole list.
Insert ==
  /\ pc = "insert"
  /\ calls' = [calls EXCEPT ![idx] = Append(@, "insert")]
  /\ \E raised \in BOOLEAN :
       LET next == AfterInsert(raised) IN
       CASE next = "return True" -> Finish(TRUE, "inserted", None)
         [] next = "return False" -> Finish(FALSE, "insert", None)
         [] OTHER -> /\ Goto(next)
                     /\ UNCHANGED <<file_log, temp_dir, dirs, vector_store_name, pdf_files,
                                    file_i, documents, doc_id>>
  /\ UNCHANGED <<fetched, uivars, poolvars, wait_call, pipelines, mode, attempt, sleeps, total, skipped, made, vector_dbs,
                 fault, registration, cvd_args>>

\* The summary is logged and the process exits.
Summary ==
  /\ pc = "loop"
  /\ Exhausted(idx, Len(pipelines))
  /\ pc' = "done"
  /\ exit_code' = ExitCode(failed)
  /\ UNCHANGED <<file_log, fetched, uivars, poolvars, wait_call, pipelines, mode, attempt, sleeps, idx, total, successful, failed,
                 skipped, temp_dir, dirs, made, vector_store_name, pdf_files, file_i,
                 documents, doc_id, vector_dbs, calls, outcome, reason, fault, exc,
                 registration, cvd_args>>

Next ==
  \/ ProbeReady
  \/ ProbeFails
  \/ SkipPipeline
  \/ EnterPipeline
  \/ UnknownSource
  \/ FetchFiles
  \/ ConvertFile
  \/ EndTransform
  \/ CvdEnter
  \/ Register
  \/ Insert
  \/ Summary

Spec == Init /\ [][Next]_vars

(***************************************************************************)
(* create_vector_db called directly, any number of times up to MaxCalls,   *)
(* with any name and any chunk list, against one backend.                  *)
(***************************************************************************)
DocLists ==
  { [i \in 1..k |-> LlamaStackDocument(i, Join(<<"tmp">>, <<"a", "pdf">>))] : k \in 0..MaxFiles }

InitLoader ==
  /\ pipelines = <<>>
  /\ mode = "direct"
  /\ pc = "idle"
  /\ InitCommon(MaxCalls)
  /\ wait_call = DefaultWait

CallCreateVectorDb ==
  /\ mode = "direct"
  /\ pc = "idle"
  /\ idx < MaxCalls
  /\ \E name \in Names, docs \in DocLists :
       /\ vector_store_name' = name
       /\ documents' = docs
       /\ cvd_args' = Append(cvd_args, [vector_store_name |-> name, documents |-> docs])
  /\ idx' = idx + 1
  /\ pc' = "cvd"
  /\ UNCHANGED <<file_log, fetched, uivars, poolvars, wait_call, pipelines, mode, attempt, sleeps, total, successful, failed, skipped,
                 exit_code, temp_dir, dirs, made, pdf_files, file_i, doc_id,
                 vector_dbs, calls, outcome, reason, fault, registration, exc>>

NextLoader ==
  \/ CallCreateVectorDb
  \/ CvdEnter
  \/ Register
  \/ Insert

SpecLoader == InitLoader /\ [][NextLoader]_vars

(***************************************************************************)
(* process_pipeline called once, on a pipeline whose source holds up to    *)
(* MaxItems items and whose files have up to MaxChunks segments;           *)
(* file_log keeps what process_documents met at each file.                 *)
(***************************************************************************)
PipelineInputs ==
  { Pipeline("true", "GITHUB", "db1", TRUE, 0), Pipeline("true", "S3", "db1", TRUE, 0) }
    \cup { Pipeline("true", "URL", "db1", TRUE, k) : k \in 1..Min(MaxItems, Len(AllUrls)) }

InitPipeline ==
  /\ pipelines \in [1..1 -> PipelineInputs]
  /\ mode = "pipeline"
  /\ pc = "idle"
  /\ InitCommon(1)
  /\ wait_call = DefaultWait

CallProcessPipeline ==
  /\ mode = "pipeline"
  /\ pc = "idle"
  /\ idx = 0
  /\ idx' = 1
  /\ pc' = "loop"
  /\ UNCHANGED <<file_log, fetched, uivars, poolvars, wait_call, pipelines, mode, attempt, sleeps, total,
                 successful, failed, skipped, exit_code, temp_dir, dirs, made,
                 vector_store_name, pdf_files, file_i, documents, doc_id, vector_dbs,
                 calls, outcome, reason, fault, registration, exc, cvd_args>>

NextPipeline ==
  \/ CallProcessPipeline
  \/ EnterPipeline
  \/ FetchFiles
  \/ ConvertFile
  \/ EndTransform
  \/ CvdEnter
  \/ Register
  \/ Insert

SpecPipeline == InitPipeline /\ [][NextPipeline]_vars

(***************************************************************************)
(* run() from its loop on (the backend answered the first probe), over     *)
(* MaxBatch pipelines, each of them disabled, a URL pipeline or a pipeline  *)
(* of a source kind the service does not know, all for the collection      *)
(* db1; cvd_args keeps the chunk list each call of create_vector_db was    *)
(* given.                                                                  *)
(***************************************************************************)
BatchInputs ==
  { Pipeline("false", "URL", "db1", TRUE, MaxFiles),
    Pipeline("true", "URL", "db1", TRUE, MaxFiles),
    Pipeline("true", "FTP", "db1", TRUE, 0) }

InitBatch ==
  /\ pipelines \in [1..MaxBatch -> BatchInputs]
  /\ mode = "batch"
  /\ pc = "idle"
  /\ InitCommon(Len(pipelines))
  /\ wait_call = DefaultWait

\* wait_for_llamastack returned True: `total = len(pipelines)` and the loop.
StartLoop ==
  /\ mode = "batch"
  /\ pc = "idle"
  /\ total = -1
  /\ total' = Len(pipelines)
  /\ idx' = 1
  /\ pc' = "loop"
  /\ UNCHANGED <<file_log, fetched, uivars, poolvars, wait_call, pipelines, mode, attempt, sleeps,
                 successful, failed, skipped, exit_code, temp_dir, dirs, made,
                 vector_store_name, pdf_files, file_i, documents, doc_id, vector_dbs,
                 calls, outcome, reason, fault, registration, exc, cvd_args>>

NextBatch ==
  \/ StartLoop
  \/ SkipPipeline
  \/ EnterPipeline
  \/ UnknownSource
  \/ FetchFiles
  \/ ConvertFile
  \/ EndTransform
  \/ CvdEnter
  \/ Register
  \/ Insert
  \/ Summary

SpecBatch == InitBatch /\ [][NextBatch]_vars

(***************************************************************************)
(* wait_for_llamastack(max_retries, retry_delay) called directly, with     *)
(* the defaults or with small arguments; wait_call.trace keeps the probes  *)
(* and the sleeps it makes, in order.                                      *)
(***************************************************************************)
RetryDelays == {1, retry_delay}

InitWait ==
  /\ pipelines = <<>>
  /\ mode = "wait"
  /\ pc = "wait"
  /\ InitCommon(0)
  /\ wait_call \in { [max_retries |-> n, retry_delay |-> d, trace |-> <<>>, result |-> None] :
                        n \in 0..MaxRetries \cup {max_retries}, d \in RetryDelays }

NextWait ==
  \/ ProbeReady
  \/ ProbeFails
  \/ LoopEnds

SpecWait == InitWait /\ [][NextWait]_vars

\* The backend answers or refuses each probe in finite time, and the sleep
\* ends: the loop goes on until it returns.
SpecWaitFair == SpecWait /\ WF_vars(NextWait)

(***************************************************************************)
(* process_documents called once on a list of files; file_log keeps the    *)
(* segments the chunker yielded for each file.                             *)
(***************************************************************************)
DocFiles ==
  << Join(<<1, "url_files">>, <<"a", "pdf">>), Join(<<1, "url_files">>, <<"b", "pdf">>) >>

InitDocuments ==
  /\ pipelines = <<>>
  /\ mode = "documents"
  /\ pc = "idle"
  /\ InitCommon(0)
  /\ wait_call = DefaultWait

\* process_documents(pdf_files): `llama_documents = []; doc_id = 0`.
CallProcessDocuments ==
  /\ mode = "documents"
  /\ pc = "idle"
  /\ \E k \in 0..Len(DocFiles) : pdf_files' = SubSeq(DocFiles, 1, k)
  /\ file_i' = 1
  /\ documents' = <<>>
  /\ doc_id' = 0
  /\ pc' = "transform"
  /\ UNCHANGED <<file_log, fetched, uivars, poolvars, wait_call, pipelines, mode, attempt, sleeps,
                 idx, total, successful, failed, skipped, exit_code, temp_dir, dirs, made,
                 vector_store_name, vector_dbs, calls, outcome, reason, fault, registration,
                 exc, cvd_args>>

\* `return llama_documents`
ReturnDocuments ==
  /\ mode = "documents"
  /\ pc = "transform"
  /\ file_i > Len(pdf_files)
  /\ pc' = "returned"
  /\ UNCHANGED <<file_log, fetched, uivars, poolvars, wait_call, pipelines, mode, attempt, sleeps,
                 idx, total, successful, failed, skipped, exit_code, temp_dir, dirs, made,
                 vector_store_name, pdf_files, file_i, documents, doc_id, vector_dbs, calls,
                 outcome, reason, fault, registration, exc, cvd_args>>

NextDocuments ==
  \/ CallProcessDocuments
  \/ ConvertFile
  \/ ReturnDocuments

SpecDocuments == InitDocuments /\ [][NextDocuments]_vars

(***************************************************************************)
(* One fetcher called once, with an existing scratch directory.            *)
(***************************************************************************)
InitFetch ==
  /\ pipelines = <<>>
  /\ mode = "fetch"
  /\ pc = "idle"
  /\ InitCommon(0)
  /\ wait_call = DefaultWait

CallFetcher ==
  /\ mode = "fetch"
  /\ pc = "idle"
  /\ fetched = <<>>
  /\ \E source \in {"GITHUB", "S3", "URL"} :
       \E config \in FetchConfigs(source) :
         \E env \in FetchEnvsOf(source, config, MaxItems) :
           LET r == Fetch(source, config, 1, env) IN
           fetched' = <<[source |-> source, config |-> config, env |-> env,
                         raised |-> r.raised, files |-> r.files, fault |-> r.fault,
                         requested |-> Requested(source, config, env),
                         written |-> Written(source, config, 1, env),
                         downloads |-> Downloads(source, config, 1, env),
                         disk |-> Disk(Downloads(source, config, 1, env))]>>
  /\ UNCHANGED <<file_log, uivars, poolvars, wait_call, pipelines, mode, pc, attempt, sleeps, idx, total,
                 successful, failed, skipped, exit_code, temp_dir, dirs, made,
                 vector_store_name, pdf_files, file_i, documents, doc_id, vector_dbs,
                 calls, outcome, reason, fault, registration, exc, cvd_args>>

NextFetch == CallFetcher

SpecFetch == InitFetch /\ [][NextFetch]_vars

(***************************************************************************)
(* The upload page: upload_page, the selection of a vector database and    *)
(* the Add button with its handler _create_vector_database.  The backend   *)
(* lists vector databases (objects with an identifier and, depending on    *)
(* the backend version, a vector_db_name attribute; None: no such          *)
(* attribute) and providers.                                               *)
(***************************************************************************)
CREATE_NEW_OPTION == "+ Create New"

InitialVdbs ==
  { [identifier |-> "db1", vector_db_name |-> None],
    [identifier |-> "vs_1", vector_db_name |-> "db2"] }

ProviderInfos ==
  { [api |-> "inference", provider_id |-> "ollama"],
    [api |-> "vector_io", provider_id |-> "pgvector"],
    [api |-> "vector_io", provider_id |-> "milvus"] }

\* What the user may have typed into the name field, and text.strip().
Typed == {"", " ", "db1", " db1 ", "db2", "db3"}
Strip ==
  [t \in Typed |-> CASE t = " " -> "" [] t = " db1 " -> "db1" [] OTHER -> t]

\* getattr(vector_db, 'vector_db_name', vector_db.identifier)
get_vector_db_name(vector_db) ==
  IF vector_db.vector_db_name # None THEN vector_db.vector_db_name
  ELSE vector_db.identifier

\* [get_vector_db_name(vdb) for vdb in existing_vdbs]
ExistingNames(vdb_list) == { get_vector_db_name(vdb_list[i]) : i \in 1..Len(vdb_list) }

\* Mutant: the name is looked for among the identifiers.
IsDuplicateByIdentifier(vdb_name, vdb_list) ==
  vdb_name \in { vdb_list[i].identifier : i \in 1..Len(vdb_list) }

\* `if vdb_name in existing_names`
IsDuplicate(vdb_name, vdb_list) == vdb_name \in ExistingNames(vdb_list)

\* Mutant: the loop takes the id of the first provider, whatever its api.
VectorIoProviderAny(providers) ==
  IF providers = <<>> THEN None ELSE providers[1].provider_id

\* The loop over providers: the id of the first whose api is 'vector_io'.
VectorIoProvider(providers) ==
  LET hits == SelectSeq(providers, LAMBDA q : q.api = "vector_io")
  IN  IF hits = <<>> THEN None ELSE hits[1].provider_id

\* upload_page down to the dropdown: a pending status is shown and cleared
\* and the selection is synchronised with the databases listed.
PageTop(ss, vdb_list) ==
  LET shown == IF ss.creation_status \in {"success", "error"}
                 THEN [ss EXCEPT !.creation_status = None, !.creation_message = ""]
                 ELSE ss
      options == ExistingNames(vdb_list) \cup {CREATE_NEW_OPTION}
  IN  IF shown.newly_created_vdb # None
        THEN IF shown.newly_created_vdb \in options
               THEN [shown EXCEPT !.selected_vector_db = shown.newly_created_vdb,
                                  !.newly_created_vdb = None]
               ELSE shown
      ELSE IF shown.selected_vector_db # "" /\ shown.selected_vector_db \in options
        THEN shown
      ELSE [shown EXCEPT !.selected_vector_db =
              IF vdb_list # <<>> THEN get_vector_db_name(vdb_list[1]) ELSE CREATE_NEW_OPTION]

\* What the three backend calls of _create_vector_database can do.
CreateEnvs ==
  [list_raises : BOOLEAN, providers_raises : BOOLEAN, register_raises : BOOLEAN,
   named : BOOLEAN]

\* _create_vector_database(vdb_name) against the backend `be`:
\* [status, message, registers, vector_dbs], registers being the register
\* calls it made and vector_dbs the backend's list after it.
create_vector_database(vdb_name, be, env) ==
  LET provider == VectorIoProvider(be.providers)
      Error(m) == [status |-> "error", message |-> m, registers |-> <<>>,
                   vector_dbs |-> be.vector_dbs]
      kwargs == [vector_db_id |-> vdb_name, embedding_dimension |-> 384,
                 embedding_model |-> "all-MiniLM-L6-v2", provider_id |-> provider]
      taken == \E i \in 1..Len(be.vector_dbs) : be.vector_dbs[i].identifier = vdb_name
  IN  IF vdb_name = "" THEN Error("empty")
      ELSE IF env.list_raises THEN Error("exception")
      ELSE IF IsDuplicate(vdb_name, be.vector_dbs) THEN Error("duplicate")
      ELSE IF env.providers_raises THEN Error("exception")
      ELSE IF provider = None THEN Error("no_provider")
      ELSE IF env.register_raises \/ taken
        THEN [Error("exception") EXCEPT !.registers = <<kwargs>>]
      ELSE [status |-> "success", message |-> "created", registers |-> <<kwargs>>,
            vector_dbs |-> Append(be.vector_dbs,
                                  [identifier |-> vdb_name,
                                   vector_db_name |-> IF env.named THEN vdb_name ELSE None])]

\* The ingestion service is not part of the upload page.
NoIngestion ==
  /\ pipelines = <<>>
  /\ attempt = 0 /\ sleeps = 0 /\ idx = 0 /\ total = -1
  /\ successful = 0 /\ failed = 0 /\ skipped = 0 /\ exit_code = -1
  /\ temp_dir = 0 /\ dirs = {} /\ made = 0
  /\ vector_store_name = None /\ pdf_files = <<>> /\ file_i = 0
  /\ documents = <<>> /\ doc_id = 0
  /\ vector_dbs = [name \in Names |-> 0]
  /\ calls = <<>> /\ outcome = <<>> /\ reason = <<>> /\ fault = <<>>
  /\ registration = <<>> /\ exc = <<>> /\ cvd_args = <<>>
  /\ file_log = <<>> /\ fetched = <<>>
  /\ wait_call = DefaultWait

InitUpload ==
  /\ mode = "upload"
  /\ pc = "rerun"
  /\ NoIngestion
  /\ backend \in [vector_dbs : ListsOf(InitialVdbs, 2), providers : ListsOf(ProviderInfos, 2)]
  /\ session_state = NoSession
  /\ last_call = <<>>
  /\ upload_calls = <<>>
  /\ pg_pool = 0 /\ tasks = <<>> /\ create_pool_calls = 0

\* The variables the upload page does not touch.
ingestvars ==
  <<pipelines, mode, attempt, sleeps, total, successful, failed, skipped, exit_code,
    temp_dir, dirs, made, vector_store_name, pdf_files, file_i, documents, doc_id,
    vector_dbs, calls, outcome, reason, fault, registration, exc, cvd_args, file_log,
    fetched, wait_call>>

\* The script runs with no widget changed (the first run, a rerun asked
\* for by st.rerun(), any other interaction).
UploadPage ==
  /\ mode = "upload"
  /\ pc \in {"page", "rerun"}
  /\ session_state' = PageTop(session_state, backend.vector_dbs)
  /\ pc' = "page"
  /\ UNCHANGED <<ingestvars, poolvars, idx, backend, last_call, upload_calls>>

\* The user picks an option of the dropdown: on_vector_db_change, then the
\* script runs.
SelectVectorDb ==
  /\ mode = "upload"
  /\ pc = "page"
  /\ \E option \in ExistingNames(backend.vector_dbs) \cup {CREATE_NEW_OPTION} :
       session_state' = PageTop([session_state EXCEPT !.selected_vector_db = option],
                                backend.vector_dbs)
  /\ UNCHANGED <<ingestvars, poolvars, pc, idx, backend, last_call, upload_calls>>

\* The user clicks Add (shown under "Create New", disabled while the name
\* field is blank): the script runs down to the button and calls
\* _create_vector_database(new_vdb_name.strip()), which ends with
\* st.rerun() when the database was created.
ClickAdd ==
  /\ mode = "upload"
  /\ pc = "page"
  /\ idx < MaxClicks
  /\ session_state.selected_vector_db = CREATE_NEW_OPTION
  /\ \E new_vdb_name \in Typed, env \in CreateEnvs :
       /\ Strip[new_vdb_name] # ""
       /\ LET top == PageTop(session_state, backend.vector_dbs)
              r == create_vector_database(Strip[new_vdb_name], backend, env)
          IN  /\ session_state' =
                   [top EXCEPT !.creation_status = r.status,
                               !.creation_message = r.message,
                               !.newly_created_vdb =
                                   IF r.status = "success" THEN Strip[new_vdb_name] ELSE @]
              /\ backend' = [backend EXCEPT !.vector_dbs = r.vector_dbs]
              /\ last_call' = <<[vdb_name |-> Strip[new_vdb_name],
                                 listed |-> backend.vector_dbs,
                                 reached_providers |->
                                     /\ ~env.list_raises
                                     /\ ~IsDuplicate(Strip[new_vdb_name], backend.vector_dbs)
                                     /\ ~env.providers_raises,
                                 providers |-> backend.providers,
                                 registers |-> r.registers,
                                 creation_status |-> r.status,
                                 creation_message |-> r.message]>>
              /\ pc' = IF r.status = "success" THEN "rerun" ELSE "page"
  /\ idx' = idx + 1
  /\ UNCHANGED <<ingestvars, poolvars, upload_calls>>

NextUpload ==
  \/ UploadPage
  \/ SelectVectorDb
  \/ ClickAdd

SpecUpload == InitUpload /\ [][NextUpload]_vars

(***************************************************************************)
(* The upload page of one browser session with an existing vector          *)
(* database selected: _show_document_upload_ui and, called from it,        *)
(* _upload_documents_to_database.  A file of the uploader is its name and  *)
(* its size; the uploader shown is the one of the selected database (a     *)
(* widget that is not rendered loses its state).                           *)
(***************************************************************************)
UploadedFiles ==
  { [name |-> <<"a", "1">>, size |-> 2], [name |-> <<"a">>, size |-> 12],
    [name |-> <<"b">>, size |-> 5] }

\* What the user may have in the uploader.
Selections ==
  { {}, {[name |-> <<"a", "1">>, size |-> 2]}, {[name |-> <<"a">>, size |-> 12]},
    {[name |-> <<"b">>, size |-> 5]},
    {[name |-> <<"a", "1">>, size |-> 2], [name |-> <<"b">>, size |-> 5]} }

\* str(f.size)
Str(size) ==
  CASE size = 2 -> <<"2">> [] size = 5 -> <<"5">> [] size = 12 -> <<"1", "2">>

\* frozenset([f.name + str(f.size) for f in uploaded_files])
FileSetId(uploaded_files) == { f.name \o Str(f.size) : f \in uploaded_files }

\* Mutant: the set of files is not recorded as processed.
MarkProcessedSkipped(processed, file_set_id) == processed

\* st.session_state[upload_key].add(file_set_id)
MarkProcessed(processed, file_set_id) == processed \cup {file_set_id}

\* `for vdb in vdb_list: if get_vector_db_name(vdb) == selected_vector_db`
SelectedVdbObj(vdb_list, name) ==
  LET hits == SelectSeq(vdb_list, LAMBDA v : get_vector_db_name(v) = name)
  IN  hits[1]

\* _upload_documents_to_database(vector_db_name, uploaded_files,
\* vector_db_id): the status it leaves; it ends with st.rerun() whether the
\* insert (or the conversion of a file) raised or not.
UploadOutcomes == {"ok", "raises"}
upload_documents_to_database(ss, result) ==
  [ss EXCEPT !.upload_status = IF result = "ok" THEN "success" ELSE "error",
             !.upload_message = IF result = "ok" THEN "uploaded" ELSE "exception"]

\* _show_document_upload_ui(vector_db_name, vector_db_obj) in a script run
\* in which the uploader holds uploaded_files: [ss, calls, rerun], the
\* session state after it, the upload calls made so far and whether the
\* run ended with st.rerun().
show_document_upload_ui(ss, earlier, vector_db_name, vector_db_obj, uploaded_files, result) ==
  LET shown == IF ss.upload_status \in {"success", "error"}
                 THEN [ss EXCEPT !.upload_status = None, !.upload_message = ""]
                 ELSE ss
      file_set_id == FileSetId(uploaded_files)
      marked == [shown EXCEPT !.processed[vector_db_name] = MarkProcessed(@, file_set_id)]
  IN  IF uploaded_files # {} /\ file_set_id \notin shown.processed[vector_db_name]
        THEN [ss |-> upload_documents_to_database(marked, result),
              calls |-> Append(earlier, [vector_db_name |-> vector_db_name,
                                       vector_db_id |-> vector_db_obj.identifier,
                                       uploaded_files |-> uploaded_files,
                                       outcome |-> result]),
              rerun |-> TRUE]
        ELSE [ss |-> shown, calls |-> earlier, rerun |-> FALSE]

\* One run of the page script: upload_page down to the dropdown, then the
\* upload UI of the selected database, if one is selected.
RunUploadPage(ss, earlier, vdb_list, result) ==
  LET top == PageTop(ss, vdb_list)
      name == top.selected_vector_db
  IN  IF name = CREATE_NEW_OPTION
        THEN [ss |-> top, calls |-> earlier, rerun |-> FALSE]
        ELSE show_document_upload_ui(top, earlier, name, SelectedVdbObj(vdb_list, name),
                                     top.uploader, result)

InitDocs ==
  /\ mode = "docs"
  /\ pc = "rerun"
  /\ NoIngestion
  /\ backend \in [vector_dbs : { v \in ListsOf(InitialVdbs, 2) : Len(v) = 2 },
                   providers : {<<>>}]
  /\ session_state =
       [creation_status |-> None, creation_message |-> "", newly_created_vdb |-> None,
        selected_vector_db |-> "", upload_status |-> None, upload_message |-> "",
        uploader |-> {}, processed |-> [n \in ExistingNames(backend.vector_dbs) |-> {}]]
  /\ last_call = <<>>
  /\ upload_calls = <<>>
  /\ pg_pool = 0 /\ tasks = <<>> /\ create_pool_calls = 0

\* The script runs on the session state ss (the state after the widget
\* event that caused the run, if any).
ScriptRuns(ss) ==
  \E result \in UploadOutcomes :
    LET r == RunUploadPage(ss, upload_calls, backend.vector_dbs, result) IN
    /\ Len(r.calls) <= MaxUploads
    /\ session_state' = r.ss
    /\ upload_calls' = r.calls
    /\ pc' = IF r.rerun THEN "rerun" ELSE "page"

\* A run with no widget changed: the first one, one asked for by
\* st.rerun(), any other interaction with the page.
DocsRerun ==
  /\ mode = "docs"
  /\ pc \in {"page", "rerun"}
  /\ ScriptRuns(session_state)
  /\ UNCHANGED <<ingestvars, poolvars, idx, backend, last_call>>

\* The user picks another option of the dropdown: on_vector_db_change; the
\* uploader of the database shown before is not rendered any more.
DocsSelect ==
  /\ mode = "docs"
  /\ pc = "page"
  /\ \E option \in ExistingNames(backend.vector_dbs) \cup {CREATE_NEW_OPTION} :
       /\ option # session_state.selected_vector_db
       /\ ScriptRuns([session_state EXCEPT !.selected_vector_db = option, !.uploader = {}])
  /\ UNCHANGED <<ingestvars, poolvars, idx, backend, last_call>>

\* The user adds files to the uploader shown or removes some.
DocsPick ==
  /\ mode = "docs"
  /\ pc = "page"
  /\ session_state.selected_vector_db # CREATE_NEW_OPTION
  /\ \E files \in Selections :
       /\ files # session_state.uploader
       /\ ScriptRuns([session_state EXCEPT !.uploader = files])
  /\ UNCHANGED <<ingestvars, poolvars, idx, backend, last_call>>

NextDocs ==
  \/ DocsRerun
  \/ DocsSelect
  \/ DocsPick

SpecDocs == InitDocs /\ [][NextDocs]_vars

(***************************************************************************)
(* The sidebar of the chat page (playground/chat.py): the vector-database  *)
(* multiselect and the toolgroup pills with their callbacks.  In this part *)
(* session_state is st.session_state as a function from the keys present   *)
(* to their values; the key "processing_mode" stands for the value of the  *)
(* (keyless) radio.  A value of a multi-selection is a list.               *)
(***************************************************************************)
RAG == <<"builtin", "::", "rag">>
WEBSEARCH == <<"builtin", "::", "websearch">>
WOLFRAM == <<"builtin", "::", "wolfram_alpha">>

\* builtin_tools_list of fetch_models_and_tools: the toolgroups of the
\* server that do not start with "mcp::".
builtin_tools_list == <<RAG, WEBSEARCH, WOLFRAM>>

ProcessingModes == {"Direct", "Agent-based"}

\* st.session_state.get(key, [])
Get(ss, key) == IF key \in DOMAIN ss THEN ss[key] ELSE <<>>

\* st.session_state[key] = value
Put(ss, key, value) == [k \in DOMAIN ss \cup {key} |-> IF k = key THEN value ELSE ss[k]]

\* del st.session_state[key]
Del(ss, key) == [k \in DOMAIN ss \ {key} |-> ss[k]]

\* Mutant: the RAG toolgroup stays selected.
WithoutRagKept(current_toolgroups) == current_toolgroups

\* [t for t in current_toolgroups if t != "builtin::rag"]
WithoutRag(current_toolgroups) == SelectSeq(current_toolgroups, LAMBDA t : t # RAG)

\* on_vector_db_change of create_vector_db_callbacks(processing_mode, ...)
on_vector_db_change(processing_mode, ss) ==
  LET selected_vdbs == Get(ss, "chat_vector_db_selector")
      current_toolgroups == Get(ss, "toolgroup_selector")
  IN  IF processing_mode # "Agent-based" THEN ss
      ELSE IF selected_vdbs = <<>>
        THEN IF RAG \in Range(current_toolgroups)
               THEN Put(ss, "toolgroup_selector", WithoutRag(current_toolgroups))
               ELSE ss
        ELSE IF RAG \notin Range(current_toolgroups)
               THEN Put(ss, "toolgroup_selector", Append(current_toolgroups, RAG))
               ELSE ss

\* on_toolgroup_change of create_vector_db_callbacks(..., vector_dbs)
on_toolgroup_change(chat_vector_dbs, ss) ==
  LET current_toolgroups == Get(ss, "toolgroup_selector")
      selected_vdbs == Get(ss, "chat_vector_db_selector")
  IN  IF RAG \notin Range(current_toolgroups)
        THEN Put(ss, "chat_vector_db_selector", <<>>)
      ELSE IF selected_vdbs = <<>> /\ chat_vector_dbs # <<>>
        THEN Put(ss, "chat_vector_db_selector", <<get_vector_db_name(chat_vector_dbs[1])>>)
      ELSE ss

\* render_vector_db_selector(vector_dbs, processing_mode, on_vector_db_change)
render_vector_db_selector(chat_vector_dbs, processing_mode, ss) ==
  LET keyed == IF "chat_vector_db_selector" \in DOMAIN ss THEN ss
               ELSE Put(ss, "chat_vector_db_selector", <<>>)
      selected_vector_dbs == keyed["chat_vector_db_selector"]
  IN  IF chat_vector_dbs = <<>> THEN keyed
      ELSE IF selected_vector_dbs # <<>>
        THEN IF processing_mode = "Direct"
               THEN Put(keyed, "direct_vector_dbs",
                        SelectSeq(chat_vector_dbs,
                                  LAMBDA vdb : get_vector_db_name(vdb) \in Range(selected_vector_dbs)))
               ELSE keyed
        ELSE Del(keyed, "direct_vector_dbs")

\* What render_vector_db_selector returns.
SelectedVectorDbs(chat_vector_dbs, ss) ==
  IF chat_vector_dbs = <<>> THEN <<>> ELSE Get(ss, "chat_vector_db_selector")

\* render_toolgroup_selection: the initialisation of the pills.
render_toolgroup_selection(selected_vector_dbs, ss) ==
  IF "toolgroup_selector" \in DOMAIN ss THEN ss
  ELSE Put(ss, "toolgroup_selector", IF selected_vector_dbs # <<>> THEN <<RAG>> ELSE <<>>)

\* render_sidebar_configuration: one run of the script on the state ss.
render_sidebar_configuration(chat_vector_dbs, ss) ==
  LET processing_mode == ss["processing_mode"]
      with_dbs == render_vector_db_selector(chat_vector_dbs, processing_mode, ss)
  IN  IF processing_mode = "Agent-based"
        THEN render_toolgroup_selection(SelectedVectorDbs(chat_vector_dbs, with_dbs), with_dbs)
        ELSE with_dbs

\* reset_agent, then the radio as the user left it.
Cleared(processing_mode) == [k \in {"processing_mode"} |-> processing_mode]

\* The values a multi-selection over the options can take.
Choices(options) == ListsOf(Range(options), 2)

InitChat ==
  /\ mode = "chat"
  /\ pc = "rendered"
  /\ NoIngestion
  /\ backend \in [vector_dbs : ListsOf(InitialVdbs, 2), providers : {<<>>}]
  /\ session_state = render_sidebar_configuration(backend.vector_dbs, Cleared("Direct"))
  /\ last_call = <<>>
  /\ upload_calls = <<>>
  /\ pg_pool = 0 /\ tasks = <<>> /\ create_pool_calls = 0

\* The user changes the multiselect: the callback registered by the last
\* run, then the script.
ChatSelectVectorDbs ==
  /\ mode = "chat"
  /\ backend.vector_dbs # <<>>
  /\ \E choice \in Choices([i \in 1..Len(backend.vector_dbs) |->
                              get_vector_db_name(backend.vector_dbs[i])]) :
       /\ choice # session_state["chat_vector_db_selector"]
       /\ session_state' =
            render_sidebar_configuration(backend.vector_dbs,
              on_vector_db_change(session_state["processing_mode"],
                                  Put(session_state, "chat_vector_db_selector", choice)))
  /\ pc' = "on_vector_db_change"
  /\ UNCHANGED <<ingestvars, poolvars, idx, backend, last_call, upload_calls>>

\* The user changes the built-in tools pills (Agent-based mode only).
ChatSelectToolgroups ==
  /\ mode = "chat"
  /\ session_state["processing_mode"] = "Agent-based"
  /\ \E choice \in Choices(builtin_tools_list) :
       /\ choice # session_state["toolgroup_selector"]
       /\ session_state' =
            render_sidebar_configuration(backend.vector_dbs,
              on_toolgroup_change(backend.vector_dbs,
                                  Put(session_state, "toolgroup_selector", choice)))
  /\ pc' = "on_toolgroup_change"
  /\ UNCHANGED <<ingestvars, poolvars, idx, backend, last_call, upload_calls>>

\* The user changes the processing mode: on_change=reset_agent.
ChatChangeMode ==
  /\ mode = "chat"
  /\ \E processing_mode \in ProcessingModes \ {session_state["processing_mode"]} :
       session_state' = render_sidebar_configuration(backend.vector_dbs,
                                                     Cleared(processing_mode))
  /\ pc' = "rendered"
  /\ UNCHANGED <<ingestvars, poolvars, idx, backend, last_call, upload_calls>>

\* The user changes the model: on_change=reset_agent.
ChatChangeModel ==
  /\ mode = "chat"
  /\ session_state' = render_sidebar_configuration(backend.vector_dbs,
                                                   Cleared(session_state["processing_mode"]))
  /\ pc' = "rendered"
  /\ UNCHANGED <<ingestvars, poolvars, idx, backend, last_call, upload_calls>>

NextChat ==
  \/ ChatSelectVectorDbs
  \/ ChatSelectToolgroups
  \/ ChatChangeMode
  \/ ChatChangeModel

SpecChat == InitChat /\ [][NextChat]_vars

(***************************************************************************)
(* _get_pg_pool.  Every browser session runs the page script in a thread   *)
(* of its own; _get_documents_from_pgvector and                            *)
(* _delete_document_from_pgvector run a coroutine that awaits              *)
(* _get_pg_pool() on that thread's event loop.  _pg_pool is a module       *)
(* global, shared by the threads.  A pool is named by the number of the    *)
(* create_pool invocation that made it; a call that raised has result -1.  *)
(***************************************************************************)
Callers == 1..MaxCallers

InitPool ==
  /\ mode = "pool"
  /\ pc = "page"
  /\ NoIngestion
  /\ backend = NoBackend /\ session_state = NoSession /\ last_call = <<>>
  /\ upload_calls = <<>>
  /\ pg_pool = 0
  /\ tasks = [c \in Callers |-> [pc |-> "idle", pool |-> 0, results |-> <<>>]]
  /\ create_pool_calls = 0

\* `if _pg_pool is None:` then, when it is, asyncpg.create_pool(...) is
\* invoked and awaited; otherwise `return _pg_pool`.
GetPgPool(c) ==
  /\ mode = "pool"
  /\ tasks[c].pc = "idle"
  /\ Len(tasks[c].results) < MaxGets
  /\ IF pg_pool = 0
       THEN /\ create_pool_calls' = create_pool_calls + 1
            /\ tasks' = [tasks EXCEPT ![c].pc = "awaiting", ![c].pool = create_pool_calls + 1]
       ELSE /\ tasks' = [tasks EXCEPT ![c].results = Append(@, pg_pool)]
            /\ UNCHANGED create_pool_calls
  /\ UNCHANGED <<ingestvars, uivars, pc, idx, pg_pool>>

\* create_pool completes: `_pg_pool = <the new pool>`.
CreatePoolReturns(c) ==
  /\ tasks[c].pc = "awaiting"
  /\ pg_pool' = tasks[c].pool
  /\ tasks' = [tasks EXCEPT ![c].pc = "assigned"]
  /\ UNCHANGED <<ingestvars, uivars, pc, idx, create_pool_calls>>

\* create_pool raises (the database refuses the connection): the exception
\* leaves _get_pg_pool and _pg_pool stays None.
CreatePoolRaises(c) ==
  /\ tasks[c].pc = "awaiting"
  /\ tasks' = [tasks EXCEPT ![c].pc = "idle", ![c].pool = 0, ![c].results = Append(@, -1)]
  /\ UNCHANGED <<ingestvars, uivars, pc, idx, pg_pool, create_pool_calls>>

\* `return _pg_pool` after the assignment.
ReturnPgPool(c) ==
  /\ tasks[c].pc = "assigned"
  /\ tasks' = [tasks EXCEPT ![c].pc = "idle", ![c].pool = 0, ![c].results = Append(@, pg_pool)]
  /\ UNCHANGED <<ingestvars, uivars, pc, idx, pg_pool, create_pool_calls>>

NextPool ==
  \/ \E c \in Callers : GetPgPool(c)
  \/ \E c \in Callers : CreatePoolReturns(c)
  \/ \E c \in Callers : CreatePoolRaises(c)
  \/ \E c \in Callers : ReturnPgPool(c)

SpecPool == InitPool /\ [][NextPool]_vars

(***************************************************************************)
(* Properties.                                                             *)
(***************************************************************************)
Pipes == 1..Len(pipelines)

\* Operation op was issued for pipeline (call) i.
Issued(i, op) == \E k \in 1..Len(calls[i]) : calls[i][k] = op

\* The configuration document sets pipeline i's 'enabled' to true.
Flagged(i) == pipelines[i].enabled = "true"

\* The loop of run has dealt with pipeline i.
Passed(i) == i < idx

\* C1: a pipeline whose 'enabled' flag is false or absent is never fetched,
\* transformed, registered or inserted; dealing with it adds one to skipped
\* and leaves successful and failed alone, so that skipped counts exactly
\* the disabled pipelines passed and successful + failed the enabled ones.
C1_DisabledOnlySkipped ==
  mode = "run" =>
    /\ \A i \in Pipes :
         ~Flagged(i) =>
           /\ calls[i] = <<>>
           /\ outcome[i] = IF Passed(i) THEN "skipped" ELSE "pending"
           /\ reason[i] = None /\ fault[i] = None /\ exc[i] = None
           /\ registration[i] = NoRegistration
    /\ \A i \in Pipes : outcome[i] = "skipped" => ~Flagged(i)
    /\ skipped = Cardinality({i \in Pipes : ~Flagged(i) /\ Passed(i)})
    /\ successful + failed = Cardinality({i \in Pipes : Flagged(i) /\ Passed(i)})

\* A run has ended whose configuration holds a pipeline without the flag
\* and one with enabled=false, both skipped.
C1_Witness ==
  /\ pc = "done"
  /\ \E i, j \in Pipes :
       /\ pipelines[i].enabled = "absent" /\ outcome[i] = "skipped"
       /\ pipelines[j].enabled = "false" /\ outcome[j] = "skipped"
  /\ skipped = 2 /\ successful = 0 /\ failed = 0

\* C2: once the readiness wait has succeeded (total is set), the process
\* ends with a nonzero code exactly when some pipeline was counted failed;
\* skipped and successful pipelines alone, or none at all, end it with 0.
C2_ExitCodeIffFailed ==
  (mode = "run" /\ total # -1 /\ exit_code # -1) =>
    /\ exit_code \in {0, 1}
    /\ exit_code # 0 <=> \E i \in Pipes : outcome[i] = "failed"
    /\ failed > 0 <=> \E i \in Pipes : outcome[i] = "failed"
    /\ (\A i \in Pipes : outcome[i] \in {"skipped", "successful"}) => exit_code = 0

\* A run of one skipped and one successful pipeline has exited with 0.
C2_Witness ==
  /\ pc = "done" /\ exit_code = 0
  /\ skipped = 1 /\ successful = 1 /\ failed = 0

\* C3: when every probe of the retry budget has failed the process exits
\* with code 1 and nothing was done for any pipeline: no operation issued,
\* no scratch directory made, no collection registered, no counter set.
C3_NotReadyExitsBeforePipelines ==
  /\ attempt = max_retries => pc = "exit"
  /\ pc = "exit" =>
       /\ attempt = max_retries
       /\ sleeps = max_retries - 1
       /\ exit_code = 1
       /\ total = -1 /\ successful = 0 /\ failed = 0 /\ skipped = 0
       /\ made = 0 /\ dirs = {}
       /\ \A n \in Names : vector_dbs[n] = 0
       /\ \A i \in Pipes : calls[i] = <<>> /\ outcome[i] = "pending"

\* The budget was exhausted with a full configuration of enabled pipelines.
C3_Witness ==
  /\ pc = "exit"
  /\ Len(pipelines) = MaxPipelines
  /\ \A i \in Pipes : Flagged(i)

\* C4: an exception raised inside a pipeline is caught in run: the process
\* does not die of it, the pipeline is counted failed once (failed is the
\* number of failed pipelines), the loop moves on to the next pipeline from
\* the state every pipeline starts in, and at the summary every pipeline
\* has been dealt with.
C4_ExceptionIsolated ==
  mode = "run" =>
    /\ pc # "crashed"
    /\ \A i \in Pipes :
         exc[i] # None =>
           /\ outcome[i] = "failed" /\ reason[i] = "exception"
           /\ Passed(i)
    /\ failed = Cardinality({i \in Pipes : outcome[i] = "failed"})
    /\ successful = Cardinality({i \in Pipes : outcome[i] = "successful"})
    /\ pc = "loop" =>
         /\ temp_dir = 0 /\ dirs = {} /\ vector_store_name = None
         /\ pdf_files = <<>> /\ documents = <<>> /\ doc_id = 0
    /\ \A i \in Pipes : Passed(i) => outcome[i] # "pending"
    /\ pc = "done" => \A i \in Pipes : Passed(i)

\* A pipeline raised and a later pipeline of the same run succeeded.
C4_Witness ==
  /\ pc = "done"
  /\ \E i, j \in Pipes : i < j /\ exc[i] # None /\ outcome[j] = "successful"

\* C5: process_documents runs only on a non-empty file list and
\* create_vector_db only on a non-empty chunk list; a pipeline whose fetch
\* returned nothing issued the fetch alone, one whose transform returned
\* nothing the fetch and the transform alone, and both are counted failed.
C5_EmptyStageShortCircuits ==
  mode = "run" =>
    /\ pc = "transform" => pdf_files # <<>>
    /\ pc \in {"cvd", "register", "insert"} => documents # <<>> /\ pdf_files # <<>>
    /\ \A i \in Pipes :
         /\ reason[i] = "no_files" => calls[i] = <<"fetch">> /\ outcome[i] = "failed"
         /\ reason[i] = "no_documents" =>
              calls[i] = <<"fetch", "transform">> /\ outcome[i] = "failed"
         /\ (Passed(i) /\ calls[i] = <<"fetch">> /\ exc[i] = None) => reason[i] = "no_files"
         /\ (Passed(i) /\ calls[i] = <<"fetch", "transform">>) => reason[i] = "no_documents"

\* One pipeline fetched no file and another produced no chunk.
C5_Witness ==
  /\ pc = "done"
  /\ \E i, j \in Pipes : reason[i] = "no_files" /\ reason[j] = "no_documents"

Calls == 1..Len(cvd_args)

\* C6: a call of create_vector_db whose registration the backend rejected
\* as a duplicate (an earlier call registered the name) does not return at
\* the registration: it goes on to the insert and ends as the insert ends,
\* and the backend holds one collection of that name.
C6_DuplicateRegistrationReused ==
  mode = "direct" =>
    /\ \A n \in Names : vector_dbs[n] <= 1
    /\ \A j \in Calls :
         registration[j].kind = "duplicate" =>
           /\ cvd_args[j].documents # <<>>
           /\ \E i \in 1..(j - 1) :
                /\ cvd_args[i].vector_store_name = cvd_args[j].vector_store_name
                /\ cvd_args[i].documents # <<>>
                /\ registration[i].kind = "ok"
           /\ vector_dbs[cvd_args[j].vector_store_name] = 1
           /\ reason[j] # "register"
           /\ IF j = idx /\ pc = "insert"
                THEN calls[j] = <<"providers", "register">>
                ELSE /\ calls[j] = <<"providers", "register", "insert">>
                     /\ reason[j] \in {"inserted", "insert"}
                     /\ outcome[j] = IF reason[j] = "inserted" THEN "successful" ELSE "failed"

\* A second call with the name of a registered collection has succeeded.
C6_Witness ==
  /\ mode = "direct"
  /\ \E j \in Calls : registration[j].kind = "duplicate" /\ outcome[j] = "successful"

\* C7: when the registration (the provider listing included) raised an
\* error whose message does not say 'already exists', no insert is issued
\* for the collection, create_vector_db returns False and the pipeline is
\* counted failed.
C7_RegistrationErrorFails ==
  mode = "run" =>
    \A i \in Pipes :
      (registration[i].kind \in {"providers", "register"} /\ ~registration[i].says_exists) =>
        /\ ~Issued(i, "insert")
        /\ registration[i].kind = "providers" => ~Issued(i, "register")
        /\ outcome[i] = "failed" /\ reason[i] = "register"
        /\ Passed(i) /\ failed >= 1

\* One pipeline failed at the provider listing, another at the register call.
C7_Witness ==
  /\ pc = "done"
  /\ \E i, j \in Pipes :
       /\ registration[i].kind = "providers" /\ ~registration[i].says_exists
       /\ registration[j].kind = "register"
       /\ outcome[i] = "failed" /\ outcome[j] = "failed"

\* C8: a call of create_vector_db with an empty chunk list returns False
\* without any backend operation (no provider listing, no register, no
\* insert), and the backend's collections are exactly those the calls
\* with chunks registered.
C8_EmptyChunkListNoBackendCall ==
  mode = "direct" =>
    /\ \A j \in Calls :
         cvd_args[j].documents = <<>> =>
           /\ calls[j] = <<>>
           /\ registration[j] = NoRegistration
           /\ j = idx => pc \in {"cvd", "idle"}
           /\ (j < idx \/ pc = "idle") => outcome[j] = "failed" /\ reason[j] = "empty"
    /\ \A n \in Names :
         vector_dbs[n] =
           Cardinality({j \in Calls : /\ cvd_args[j].vector_store_name = n
                                      /\ cvd_args[j].documents # <<>>
                                      /\ registration[j].kind = "ok"})

\* A call with no chunks has returned False after a call that registered
\* and filled a collection.
C8_Witness ==
  /\ mode = "direct"
  /\ \E i, j \in Calls :
       /\ i < j
       /\ outcome[i] = "successful"
       /\ cvd_args[j].documents = <<>> /\ outcome[j] = "failed"
       /\ cvd_args[j].vector_store_name = cvd_args[i].vector_store_name

\* The failures a fetcher turns into a returned list, and those it lets out.
CaughtFaults == {"checkout_nonzero", "path_missing", "list", "download", "http"}
EscapingFaults == {"missing_parameter", "checkout_cannot_start", "client", "mkdir"}

\* C9 as claimed: no exception ever leaves a fetcher.
C9_FetchersNeverRaise ==
  mode = "run" => \A i \in Pipes : Issued(i, "fetch") => exc[i] = None

\* C9, amended: a fetcher returns a list when the checkout exits non-zero,
\* the sub-path is missing, a listing or a download of the object store
\* fails or an HTTP download fails.  When the checkout command cannot be
\* started, a required source parameter is missing, the object-store client
\* or the download directory cannot be created, the exception leaves the
\* fetcher; run catches it and counts the pipeline failed.
C9_FetchersCatchGuardedFailures ==
  mode = "run" =>
    \A i \in Pipes :
      /\ fault[i] \in CaughtFaults => Issued(i, "fetch") /\ exc[i] = None
      /\ fault[i] \in EscapingFaults =>
           /\ calls[i] = <<"fetch">>
           /\ exc[i] \in {"KeyError", "FileNotFoundError", "ClientError", "OSError"}
           /\ outcome[i] = "failed" /\ reason[i] = "exception"
      /\ (Issued(i, "fetch") /\ exc[i] # None) => fault[i] \in EscapingFaults

\* A download failure was turned into a returned list and a failed client
\* creation left fetch_from_s3 as an exception.
C9_Witness ==
  /\ pc = "done"
  /\ \E i, j \in Pipes :
       /\ fault[i] = "download" /\ exc[i] = None /\ reason[i] = "no_files"
       /\ fault[j] = "client" /\ exc[j] = "ClientError"

\* C10: a GITHUB pipeline whose checkout exits non-zero, or whose sub-path
\* is missing after the checkout, ends in the 'no files' branch: the fetch
\* is its only operation, no exception reaches run, it is counted failed
\* and the run goes on (it can only end at the summary, with code 1).
C10_FailedCheckoutIsNoFiles ==
  mode = "run" =>
    \A i \in Pipes :
      (pipelines[i].source = "GITHUB" /\ fault[i] \in {"checkout_nonzero", "path_missing"}) =>
        /\ calls[i] = <<"fetch">>
        /\ exc[i] = None
        /\ reason[i] = "no_files" /\ outcome[i] = "failed"
        /\ Passed(i)
        /\ pc \notin {"crashed", "exit"}
        /\ exit_code # -1 => pc = "done" /\ exit_code = 1

\* A run ended with one pipeline whose checkout failed and one whose
\* sub-path was missing.
C10_Witness ==
  /\ pc = "done"
  /\ \E i, j \in Pipes : fault[i] = "checkout_nonzero" /\ fault[j] = "path_missing"

\* The calls of fetch_from_urls (of fetch_from_s3) that reached the downloads.
UrlFetches ==
  { j \in 1..Len(fetched) : fetched[j].source = "URL" /\ fetched[j].env.mkdir_ok }
S3Fetches ==
  { j \in 1..Len(fetched) :
      /\ fetched[j].source = "S3" /\ fetched[j].config.complete
      /\ fetched[j].env.client_ok /\ fetched[j].env.mkdir_ok }

\* The positions of the URLs whose download succeeded, in order.
Succeeded(http_ok) ==
  SelectSeq([i \in 1..Len(http_ok) |-> i], LAMBDA i : http_ok[i])

\* C11: fetch_from_urls called with n URLs of which k downloads fail
\* requests every URL once, in the order of the configuration, does not
\* raise, and returns n-k paths: the path of each URL whose download
\* succeeded, in order, and none for a URL that failed.
C11_UrlPartialSuccess ==
  mode = "fetch" =>
    \A j \in UrlFetches :
      LET urls == fetched[j].config.urls
          ok == Succeeded(fetched[j].env.http_ok)
          k == Cardinality({i \in 1..Len(urls) : ~fetched[j].env.http_ok[i]})
      IN  /\ fetched[j].raised = None
          /\ fetched[j].requested = urls
          /\ Len(fetched[j].files) = Len(urls) - k
          /\ fetched[j].files =
               [m \in 1..Len(ok) |-> Join(<<1, "url_files">>, UrlFilename(urls[ok[m]]))]

\* Three URLs were configured, the download of the first failed and two
\* files were returned.
C11_Witness ==
  /\ mode = "fetch"
  /\ \E j \in UrlFetches :
       /\ Len(fetched[j].config.urls) = 3
       /\ ~fetched[j].env.http_ok[1]
       /\ fetched[j].env.http_ok[2] /\ fetched[j].env.http_ok[3]
       /\ Len(fetched[j].files) = 2
       /\ Len(fetched[j].requested) = 3

\* C12: when the listing or a download of fetch_from_s3 raises, the
\* function returns the empty list, also when objects were downloaded
\* before the failure; a list it returns non-empty holds what it wrote and
\* met no failure.
C12_S3FailureReturnsNothing ==
  mode = "fetch" =>
    \A j \in S3Fetches :
      /\ fetched[j].fault \in {"list", "download"} =>
           fetched[j].raised = None /\ fetched[j].files = <<>>
      /\ fetched[j].files # <<>> =>
           fetched[j].fault = None /\ Range(fetched[j].files) = fetched[j].written
      /\ fetched[j].fault = None =>
           fetched[j].files =
             S3Downloaded(<<1, "s3_files">>, fetched[j].env.keys, Len(fetched[j].env.keys) + 1)

\* A download failed after another object had been written, and a listing
\* failed after one: both calls returned the empty list.
C12_Witness ==
  /\ mode = "fetch"
  /\ \E j \in S3Fetches :
       /\ fetched[j].fault \in {"download", "list"}
       /\ fetched[j].env.error.at >= 2
       /\ fetched[j].written # {}
       /\ fetched[j].files = <<>>

\* The number n of the identifier f"doc-{n}".
IdNumber(d) == d.document_id[2]

\* The chunks of `documents` that file k of the batch contributed.
ChunksOf(k) ==
  { a \in 1..Len(documents) :
      file_log[k].first <= IdNumber(documents[a]) /\ IdNumber(documents[a]) <= file_log[k].last }

\* C13 as claimed: a file whose handling raised (in conversion, chunking or
\* the extraction of its chunks) contributes no chunk to the list
\* process_documents returns, and every file of the list is handled.
C13_BadFileContributesNothing ==
  mode = "pipeline" =>
    /\ \A k \in 1..Len(file_log) : file_log[k].raised => ChunksOf(k) = {}
    /\ pc \in {"cvd", "register", "insert"} => Len(file_log) = Len(pdf_files)

\* C14: the chunk identifiers of the list handed to the insert are pairwise
\* distinct (and so at every point of process_documents), whatever the
\* number of files, of chunks per file and the files whose handling raised.
C14_ChunkIdsDistinct ==
  mode = "pipeline" =>
    /\ \A a, b \in 1..Len(documents) :
         a # b => documents[a].document_id # documents[b].document_id
    /\ \A a \in 1..Len(documents) : IdNumber(documents[a]) = a
    /\ doc_id = Len(documents)

\* An insert is about to be issued with chunks of two files, one of them
\* with two chunks and one whose handling raised.
C14_Witness ==
  /\ mode = "pipeline" /\ pc = "insert"
  /\ Len(documents) >= 3
  /\ \E k, m \in 1..Len(file_log) :
       /\ k # m
       /\ Cardinality(ChunksOf(k)) = 2
       /\ file_log[m].raised /\ ChunksOf(m) # {}

\* C15: every chunk of process_documents carries as metadata 'source' the
\* basename of the file it was extracted from, the last component of the
\* path the fetcher returned, for files of a checkout, of a bucket and of
\* a URL list alike; every chunk comes from one file of the list.
C15_SourceIsBasename ==
  (mode = "pipeline" /\ pc \in {"transform", "cvd", "register", "insert"}) =>
    /\ \A k \in 1..Len(file_log) :
         /\ file_log[k].file_path = pdf_files[k]
         /\ \A a \in ChunksOf(k) :
              /\ documents[a].metadata.source = Basename(pdf_files[k])
              /\ documents[a].metadata.source = pdf_files[k].name
              /\ EndsWithPdf(documents[a].metadata.source)
    /\ \A a \in 1..Len(documents) : \E k \in 1..Len(file_log) : a \in ChunksOf(k)

\* The chunks of a downloaded URL without extension carry the name the
\* fetcher gave its file, and those of the next file their own.
C15_Witness ==
  /\ mode = "pipeline" /\ pc = "insert"
  /\ pipelines[1].source = "URL"
  /\ \E a, b \in 1..Len(documents) :
       /\ documents[a].metadata.source = <<"b", "pdf">>
       /\ documents[b].metadata.source = <<"c", "Pdf">>

\* The program is inside the with-block of process_pipeline.
InPipeline == pc \in {"fetch", "transform", "cvd", "register", "insert"}

\* Pipeline i has entered the with-block (it got past its keys and mkdtemp).
Entered(i) ==
  /\ Flagged(i)
  /\ i < idx \/ (i = idx /\ InPipeline)
  /\ fault[i] \notin {"missing_key", "mkdtemp"}

\* C16: a scratch directory exists only while the pipeline it was made for
\* is inside process_pipeline and is that pipeline's own: outside (between
\* pipelines, at the summary, after any return or exception) none exists,
\* one directory was made per pipeline that entered, and the directory a
\* pipeline gets is a new one, never that of an earlier pipeline.
C16_ScratchDirScoped ==
  /\ [](mode = "run" =>
          /\ Cardinality(dirs) <= 1
          /\ InPipeline => temp_dir # 0 /\ dirs = {temp_dir} /\ idx \in Pipes /\ Flagged(idx)
          /\ ~InPipeline => temp_dir = 0 /\ dirs = {}
          /\ made = Cardinality({i \in Pipes : Entered(i)})
          /\ temp_dir \in {0, made})
  /\ [][mode = "run" =>
          /\ (temp_dir = 0 /\ temp_dir' # 0) =>
               temp_dir' > made /\ made' = temp_dir' /\ dirs' = {temp_dir'}
          /\ (temp_dir # 0 /\ temp_dir' # temp_dir) =>
               temp_dir' = 0 /\ dirs' = {} /\ idx' = idx + 1]_vars

\* A run has ended in which one pipeline left its with-block by an
\* exception and another by a successful insert; no directory is left.
C16_Witness ==
  /\ pc = "done" /\ made = 2 /\ dirs = {}
  /\ \E i, j \in Pipes :
       /\ exc[i] # None /\ fault[i] \in EscapingFaults
       /\ outcome[j] = "successful"

\* How many times op was issued for pipeline i.
Count(i, op) == Cardinality({k \in 1..Len(calls[i]) : calls[i][k] = op})

\* The operations of a pipeline, in the order process_pipeline issues them.
Stages == <<"fetch", "transform", "providers", "register", "insert">>
StageOf(op) == CHOOSE k \in 1..Len(Stages) : Stages[k] = op

\* C17: for each pipeline the fetch, the provider listing, the register and
\* the insert are issued at most once and in that order; the list handed to
\* the insert is the whole list process_documents returned; the insert is
\* one call, after which the pipeline is over; and once a pipeline is over
\* nothing more is issued for it.
C17_SingleAttempt ==
  /\ [](mode = "run" =>
          /\ \A i \in Pipes :
               /\ \A op \in Range(Stages) : Count(i, op) <= 1
               /\ \A a, b \in 1..Len(calls[i]) :
                    a < b => StageOf(calls[i][a]) < StageOf(calls[i][b])
               /\ outcome[i] = "failed" => Passed(i)
          /\ pc = "insert" => documents # <<>> /\ doc_id = Len(documents))
  /\ [][mode = "run" =>
          /\ \A i \in Pipes : Passed(i) => calls'[i] = calls[i] /\ outcome'[i] = outcome[i]
          /\ (pc \in {"cvd", "register"} /\ pc' \in {"register", "insert"}) =>
               documents' = documents
          /\ pc = "insert" =>
               /\ calls'[idx] = Append(calls[idx], "insert")
               /\ pc' = "loop" /\ idx' = idx + 1]_vars

\* A run has ended in which one pipeline failed at its registration and
\* another at its insert, each after one attempt.
C17_Witness ==
  /\ pc = "done"
  /\ \E i, j \in Pipes :
       /\ reason[i] = "register" /\ calls[i] = SubSeq(Stages, 1, 4)
       /\ reason[j] = "insert" /\ calls[j] = Stages

\* The display names of the databases of vdb_list are pairwise distinct.
NamesDistinct(vdb_list) ==
  \A a, b \in 1..Len(vdb_list) :
    a # b => get_vector_db_name(vdb_list[a]) # get_vector_db_name(vdb_list[b])

\* C18: a call of _create_vector_database with a name that is the name of
\* a vector database the backend lists makes no register call and leaves
\* creation_status 'error'; no register call ever carries a listed name,
\* and the names the backend lists stay pairwise distinct.
C18_DuplicateNameNotRegistered ==
  mode = "upload" =>
    /\ \A c \in Range(last_call) :
         /\ c.vdb_name \in ExistingNames(c.listed) =>
              /\ c.registers = <<>>
              /\ c.creation_status = "error"
              /\ session_state.creation_status # "success"
              /\ backend.vector_dbs = c.listed
         /\ \A k \in 1..Len(c.registers) :
              c.registers[k].vector_db_id \notin ExistingNames(c.listed)
    /\ NamesDistinct(backend.vector_dbs)

\* The second click asked for the name of the database the first click
\* had created, with a vector_io provider at hand: nothing was registered.
C18_Witness ==
  /\ mode = "upload" /\ idx = 2
  /\ \E c \in Range(last_call) :
       /\ c.vdb_name = "db3"
       /\ c.vdb_name \in ExistingNames(c.listed)
       /\ VectorIoProvider(c.providers) # None
       /\ c.registers = <<>> /\ c.creation_message = "duplicate"

PoolsReturned ==
  UNION { Range(tasks[c].results) : c \in Callers } \ {-1}

\* C20 as claimed: over any interleaving of calls of _get_pg_pool,
\* create_pool is invoked at most once and all calls return the same pool.
C20_PoolCreatedOnce ==
  mode = "pool" =>
    /\ create_pool_calls <= 1
    /\ Cardinality(PoolsReturned) <= 1

RECURSIVE Flatten(_)
\* The chunks of the lists of a sequence of calls, one after the other.
Flatten(args) ==
  IF args = <<>> THEN <<>> ELSE Head(args).documents \o Flatten(Tail(args))

\* The chunks the run has produced so far, in order of production: those
\* handed to create_vector_db, then those of the pipeline being transformed.
Produced == Flatten(cvd_args) \o (IF pc = "transform" THEN documents ELSE <<>>)

\* C21: over one invocation of run(), chunk identifiers are assigned in
\* strictly increasing order of production and no identifier is given to
\* two different chunks, chunks of different pipelines included.
C21_ChunkIdsUniqueInRun ==
  mode = "batch" =>
    \A a, b \in 1..Len(Produced) :
      a < b => IdNumber(Produced[a]) < IdNumber(Produced[b])

\* Pipeline i has been dealt with: skipped, or process_pipeline returned
\* or raised.
Decided(i) == outcome[i] # "pending"

\* C22: the pipelines are executed one at a time in configuration order:
\* every operation of a pipeline (fetch, transform, register, insert, the
\* removal of its scratch directory) is over before the first operation of
\* the next one, and the summary is emitted only after the last configured
\* pipeline has been processed or skipped.
C22_PipelinesSequential ==
  /\ [](mode = "batch" =>
          /\ \A i \in Pipes :
                /\ i < idx => Decided(i)
                /\ (idx = 0 \/ i > idx) => calls[i] = <<>> /\ ~Decided(i)
          /\ pc = "loop" => dirs = {}
          /\ dirs \subseteq {temp_dir}
          /\ pc = "done" => \A i \in Pipes : Decided(i))
  /\ [][mode = "batch" =>
          /\ idx' \in {idx, idx + 1}
          /\ \A i \in Pipes :
                (calls'[i] # calls[i] \/ outcome'[i] # outcome[i]) =>
                  /\ i = idx
                  /\ \A j \in 1..(i - 1) : Decided(j)
                  /\ dirs \subseteq {temp_dir}
          /\ (temp_dir' # temp_dir /\ temp_dir' # 0) =>
                dirs = {} /\ \A j \in 1..(idx - 1) : Decided(j)
          /\ pc' = "done" => idx > Len(pipelines) /\ \A i \in Pipes : Decided(i)]_vars

\* A run in which the second pipeline was loaded after the first had been,
\* and the summary was emitted.
C22_Witness ==
  /\ mode = "batch" /\ pc = "done"
  /\ Len(pipelines) >= 2
  /\ Issued(1, "insert") /\ Issued(2, "insert")
  /\ made >= 2 /\ dirs = {}

\* What wait_for_llamastack did: its probes, in order, and its sleeps.
Probes == SelectSeq(wait_call.trace, LAMBDA e : e.op = "probe")
Sleeps == SelectSeq(wait_call.trace, LAMBDA e : e.op = "sleep")

\* The call of wait_for_llamastack has returned.
WaitOver == wait_call.result # None

\* C23: wait_for_llamastack(max_retries, retry_delay) terminates after at
\* most max_retries probes; it returns True at the first successful probe
\* and probes no more, returns False if and only if all max_retries probes
\* failed, and sleeps retry_delay only between two consecutive attempts:
\* max_retries - 1 times when every probe failed, never after the last one.
C23_WaitBounded ==
  /\ <>(mode = "wait" => WaitOver)
  /\ [](mode = "wait" =>
          LET t == wait_call.trace
              n == wait_call.max_retries
          IN  /\ Len(Probes) <= n
              /\ \A k \in 1..Len(Probes) : Probes[k].ok => WaitOver /\ k = Len(Probes)
              /\ wait_call.result = "True" =>
                    Len(Probes) >= 1 /\ Probes[Len(Probes)].ok
              /\ wait_call.result = "False" <=>
                    /\ WaitOver
                    /\ Len(Probes) = n
                    /\ \A k \in 1..n : ~Probes[k].ok
              /\ \A k \in 1..Len(t) :
                    t[k].op = "sleep" =>
                      /\ t[k].secs = wait_call.retry_delay
                      /\ k > 1 /\ t[k - 1].op = "probe" /\ ~t[k - 1].ok
                      /\ WaitOver => k < Len(t) /\ t[k + 1].op = "probe"
              /\ \A k \in 1..(Len(t) - 1) :
                    ~(t[k].op = "probe" /\ t[k + 1].op = "probe")
              /\ (wait_call.result = "False" /\ n >= 1) => Len(Sleeps) = n - 1)
  /\ [][mode = "wait" => (WaitOver => wait_call' = wait_call)]_vars

\* The default call gave up: 30 failed probes and 29 sleeps of 5 seconds.
C23_Witness ==
  /\ mode = "wait"
  /\ wait_call.max_retries = max_retries
  /\ wait_call.result = "False"
  /\ Len(Probes) = max_retries /\ Len(Sleeps) = max_retries - 1

\* The chunks process_documents made, counted from what it met at each file.
ChunksMade == { k \in 1..Len(file_log) : file_log[k].last >= file_log[k].first }

\* C24: a pipeline is successful if and only if it is enabled, its fetch
\* returned at least one file, process_documents returned at least one
\* chunk, the registration succeeded or reported 'already exists', and the
\* single insert call returned without raising; a URL or a file that failed
\* along the way does not change that.
C24_SuccessfulIffLoaded ==
  (mode = "pipeline" /\ Decided(1)) =>
    (outcome[1] = "successful" <=>
       /\ Flagged(1)
       /\ exc[1] = None /\ Len(file_log) >= 1
       /\ ChunksMade # {}
       /\ registration[1].kind = "ok" \/ registration[1].says_exists
       /\ Count(1, "insert") = 1 /\ reason[1] # "insert")

\* A pipeline that lost a URL in its fetch and a file in its transform and
\* was loaded all the same.
C24_Witness ==
  /\ mode = "pipeline" /\ outcome[1] = "successful"
  /\ fault[1] = "http"
  /\ \E k \in 1..Len(file_log) : file_log[k].raised /\ file_log[k].last < file_log[k].first
  /\ registration[1].says_exists

Narrative == {"TEXT", "PARAGRAPH"}

\* The identifiers file k of the batch consumed.
Consumed(k) == file_log[k].last - file_log[k].first + 1

\* The segments of file k that satisfy P.
SegsWith(k, P(_)) == { j \in 1..Len(file_log[k].segs) : P(file_log[k].segs[j]) }

AllNarrative(seg) == seg \subseteq Narrative
SomeNarrative(seg) == seg \cap Narrative # {}

\* C25 as claimed: a segment becomes a chunk only if its constituent items
\* are narrative text (TEXT or PARAGRAPH): a file gets as many chunks, and
\* consumes as many identifiers, as it has segments made of such items.
C25_OnlyNarrativeSegments ==
  mode = "documents" =>
    \A k \in 1..Len(file_log) :
      /\ Cardinality(ChunksOf(k)) = Cardinality(SegsWith(k, AllNarrative))
      /\ Consumed(k) = Cardinality(SegsWith(k, AllNarrative))

\* C25 amended: a segment becomes a chunk if and only if at least one of
\* its items is labelled TEXT or PARAGRAPH; a segment without such an item
\* (tables, figures, structure alone) gives no chunk and consumes no
\* identifier, a segment that mixes such an item with others is kept.
C25_SegmentsWithNarrativeItem ==
  mode = "documents" =>
    \A k \in 1..Len(file_log) :
      /\ Cardinality(ChunksOf(k)) = Cardinality(SegsWith(k, SomeNarrative))
      /\ Consumed(k) = Cardinality(SegsWith(k, SomeNarrative))
      /\ SegsWith(k, SomeNarrative) = {} => ChunksOf(k) = {} /\ Consumed(k) = 0

\* A file with a table segment and a text segment gave one chunk, and the
\* next file, a paragraph with a picture, one more with the next identifier.
C25_Witness ==
  /\ mode = "documents" /\ pc = "returned"
  /\ \E k \in 1..(Len(file_log) - 1) :
       /\ file_log[k].segs = <<{"TABLE"}, {"TEXT"}>>
       /\ Consumed(k) = 1
       /\ file_log[k + 1].segs = <<{"PARAGRAPH", "PICTURE"}>>
       /\ file_log[k + 1].first = file_log[k].last + 1
       /\ Consumed(k + 1) = 1

\* The pipelines whose outcome is o.
With(o) == { i \in Pipes : outcome[i] = o }

\* C26: when the summary is emitted, total is the number of configured
\* pipelines and total = successful + failed + skipped, every pipeline
\* being counted in exactly one of the three, whatever the mix of
\* disabled, failing, raising and succeeding pipelines.
C26_SummaryPartitions ==
  (mode = "batch" /\ pc = "done") =>
    /\ total = Len(pipelines)
    /\ total = successful + failed + skipped
    /\ \A i \in Pipes : outcome[i] \in {"successful", "failed", "skipped"}
    /\ successful = Cardinality(With("successful"))
    /\ failed = Cardinality(With("failed"))
    /\ skipped = Cardinality(With("skipped"))

\* The summary of a run of a disabled pipeline and one that raised.
C26_Witness ==
  /\ mode = "batch" /\ pc = "done"
  /\ \E i, j \in Pipes : outcome[i] = "skipped" /\ outcome[j] = "failed" /\ exc[j] # None
  /\ total = 2 /\ successful = 0 /\ failed = 1 /\ skipped = 1

\* C27: an enabled pipeline whose source kind is none of GITHUB, S3 and URL
\* is counted failed and no fetch, transform, register or insert is issued
\* for it; the pipelines after it are processed all the same.
C27_UnknownSourceFails ==
  mode = "batch" =>
    /\ \A i \in Pipes :
         (Flagged(i) /\ pipelines[i].source \notin {"GITHUB", "S3", "URL"}) =>
           /\ calls[i] = <<>>
           /\ registration[i] = NoRegistration
           /\ Passed(i) => outcome[i] = "failed" /\ i \in With("failed")
           /\ (Passed(i) /\ exc[i] = None) => reason[i] = "unknown_source"
           /\ pc = "done" => \A j \in Pipes : j > i => Decided(j)
    /\ failed >= Cardinality({ i \in Pipes : Passed(i) /\ pipelines[i].source = "FTP" })

\* A pipeline of an unknown source kind failed and the next one was loaded.
C27_Witness ==
  /\ mode = "batch" /\ pc = "done"
  /\ pipelines[1].source = "FTP" /\ reason[1] = "unknown_source"
  /\ outcome[2] = "successful" /\ Issued(2, "insert")
  /\ failed = 1 /\ successful = 1

\* C28 as claimed: within one fetch of fetch_from_urls or fetch_from_s3,
\* distinct source items are written at pairwise distinct local paths: the
\* list returned holds no path twice, and every path returned holds the
\* content of its own source item when the fetch returns.
C28_DistinctItemsDistinctPaths ==
  mode = "fetch" =>
    \A j \in UrlFetches \cup S3Fetches :
      LET files == fetched[j].files
          d == fetched[j].downloads
      IN  /\ \A a, b \in 1..Len(files) : a # b => files[a] # files[b]
          /\ files # <<>> =>
                /\ files = [a \in 1..Len(d) |-> d[a].path]
                /\ \A a \in 1..Len(d) : fetched[j].disk[files[a]] = d[a].item

\* C29: in one session and for one vector database, a set of selected
\* files (same names and sizes) triggers _upload_documents_to_database at
\* most once over any number of runs of the page; the set is recorded as
\* processed when the upload is attempted, so that an upload that failed
\* is not attempted again by a later run.
C29_UploadAtMostOnce ==
  mode = "docs" =>
    /\ \A a, b \in 1..Len(upload_calls) :
         (/\ a # b
          /\ upload_calls[a].vector_db_name = upload_calls[b].vector_db_name) =>
           /\ upload_calls[a].uploaded_files # upload_calls[b].uploaded_files
           /\ FileSetId(upload_calls[a].uploaded_files) #
                FileSetId(upload_calls[b].uploaded_files)
    /\ \A a \in 1..Len(upload_calls) :
         FileSetId(upload_calls[a].uploaded_files) \in
           session_state.processed[upload_calls[a].vector_db_name]

\* An upload failed; the page has run again since (the error was shown and
\* cleared) with the same files still in the uploader of that database,
\* and no second upload was made.
C29_Witness ==
  /\ mode = "docs" /\ pc = "page"
  /\ Len(upload_calls) = 1
  /\ upload_calls[1].outcome = "raises"
  /\ session_state.selected_vector_db = upload_calls[1].vector_db_name
  /\ session_state.uploader = upload_calls[1].uploaded_files
  /\ session_state.upload_status = None

\* C30: in Agent-based mode with at least one vector database, after
\* on_vector_db_change or on_toolgroup_change has run, 'builtin::rag' is
\* among the selected toolgroups exactly when a vector database is
\* selected, whatever the user selected before.
C30_RagInSyncWithSelection ==
  (/\ mode = "chat"
   /\ pc \in {"on_vector_db_change", "on_toolgroup_change"}
   /\ session_state["processing_mode"] = "Agent-based"
   /\ backend.vector_dbs # <<>>) =>
    (RAG \in Range(Get(session_state, "toolgroup_selector"))
       <=> Get(session_state, "chat_vector_db_selector") # <<>>)

\* The RAG toolgroup was selected after another one while the first of two
\* vector databases is the only one selected.
C30_Witness ==
  /\ mode = "chat" /\ pc = "on_toolgroup_change"
  /\ session_state["processing_mode"] = "Agent-based"
  /\ Len(backend.vector_dbs) = 2
  /\ Get(session_state, "toolgroup_selector") = <<WEBSEARCH, RAG>>
  /\ Get(session_state, "chat_vector_db_selector") =
       <<get_vector_db_name(backend.vector_dbs[1])>>

====
